---- MODULE Spec2Model ----
(***************************************************************************)
(* Model of the Vulnerability Data Engine of zenbuns/RVD:                  *)
(*   - the schema migration engine        (src/src/db/schema.rs)           *)
(*   - the connection pool set-up          (src/src/db/connection.rs)      *)
(*   - the flat-file importer              (src/src/utils/csv_importer.rs) *)
(*   - the enrichment pipeline             (src/src/utils/nvd_api.rs)      *)
(*   - the paginated query                 (src/src/gui/app.rs)            *)
(*   - the page loader of gui::database    (src/src/gui/database.rs)       *)
(*   - the vulnerability view              (src/src/gui/app.rs)            *)
(*   - the update scheduler and shutdown   (src/src/main.rs)               *)
(* Each part has its own specification (SpecMig, SpecCsv, SpecReimport,    *)
(* SpecHeader, SpecKey, SpecEnrich, SpecRace, SpecPage, SpecDbPage,        *)
(* SpecView, SpecSched) over one list of variables; a specification leaves *)
(* the variables of the other parts at their idle value.                   *)
(***************************************************************************)
EXTENDS Integers, Sequences, FiniteSets, TLC

VARIABLES
    \* ---- database file: schema (schema.rs)
    ledger,        \* versions recorded in schema_version
    objects,       \* tables and indexes that exist in the file
    \* ---- connection pool (connection.rs)
    pool,          \* "closed" | "open"
    checkedOut,    \* connections currently handed out
    lastRun,       \* the last check_schema_version call: before, after, ok
    lastEstablish, \* result of the last establish_pool_with_path: "none" | "ok" | "err"
    waiting,       \* calls of pool.get() blocked for a free connection
    lastGet,       \* result of the last pool.get() that returned: "none" | "ok" | "err"
    \* ---- vulnerabilities table (schema.rs:19-27)
    vulns,         \* the rows of the table
    autoinc,       \* the AUTOINCREMENT counter of vulnerability_id
    \* ---- importer (csv_importer.rs)
    feed,          \* the lines of the flat-file feed, each a sequence of fields
    importResult,  \* what the last import_vulnerabilities_from_csv returned
    imports,       \* number of imports run
    afterFirst,    \* how the first import ended, and the table it left
    \* ---- enrichment (nvd_api.rs)
    epc,             \* "idle" | "running" | "panicked"
    batch,           \* the records of the batch not yet processed
    updated_count,   \* updated_count of the running batch
    returned,        \* what the last batch_update_vulnerabilities returned
    runNo,           \* number of runs started
    runStart,        \* the table when the current run selected its batch
    wrote,           \* keys for which the current run executed an UPDATE
    filled,          \* keys the previous run filled (see FilledBy)
    lastRec,         \* the last update_fields_if_unknown call
    sleptSinceFetch, \* REQUEST_DELAY has elapsed since the last fetch of the batch
    selection,       \* the limit and the keys of the last SELECT
    nvdSeen,         \* per key, the last response the source gave
    nvdChanged,      \* keys for which the source gave two different responses
    \* ---- vulnerability view (gui/app.rs)
    loaded,          \* the last load_vulnerabilities call: its inputs and result
    \* ---- key validation (csv_importer.rs:246-252)
    keyText,         \* the characters of a candidate business key
    keyValid,        \* what is_valid_cve_id returned for it (NoneOpt: not called)
    \* ---- process and update scheduler (main.rs)
    mainPc,          \* App::run: "off" | "gui" | "cleanup" | "returned"
    ctrlC,           \* the ctrl_c task: "off" | "listening" | "sent"
    shutdownSent,    \* number of sends on the shutdown channel
    schedPc,         \* the scheduler task: "off" | "polling" | "parked" | "running" | "exited" | "dropped"
    tickReady,       \* sleep(UPDATE_INTERVAL) of the current select has elapsed
    batchLeft,       \* records the running batch has not processed yet
    batchesRun,      \* number of batches the scheduler started
    \* ---- vulnerability view (gui/app.rs)
    app,             \* the fields of VulnerabilityApp
    inflight,        \* the load commands performed and not yet completed
    issued,          \* number of load commands performed so far
    latestReset,     \* the command of the latest request that reset the list
    viewTable        \* the table the view reads: its rows and how many are High

migVars == <<ledger, objects, pool, checkedOut, lastRun, lastEstablish, waiting, lastGet>>
tableVars == <<vulns, autoinc>>
csvVars == <<feed, importResult, imports, afterFirst>>
enrichVars == <<epc, batch, updated_count, returned, runNo, runStart, wrote, filled,
                lastRec, sleptSinceFetch, selection, nvdSeen, nvdChanged>>
pageVars == <<loaded>>
keyVars == <<keyText, keyValid>>
schedVars == <<mainPc, ctrlC, shutdownSent, schedPc, tickReady, batchLeft, batchesRun>>
viewVars == <<app, inflight, issued, latestReset, viewTable>>

vars == <<ledger, objects, pool, checkedOut, lastRun, lastEstablish, waiting, lastGet,
          vulns, autoinc, feed, importResult, imports, afterFirst,
          epc, batch, updated_count, returned, runNo, runStart, wrote, filled,
          lastRec, sleptSinceFetch, selection, nvdSeen, nvdChanged, loaded,
          keyText, keyValid,
          mainPc, ctrlC, shutdownSent, schedPc, tickReady, batchLeft, batchesRun,
          app, inflight, issued, latestReset, viewTable>>

None == "none"

\* No check_schema_version call has been made yet.
NoRun == [ran |-> FALSE, before |-> 0, after |-> 0, ok |-> FALSE]

(***************************************************************************)
(* Migration engine                                                        *)
(***************************************************************************)

\* The latest schema generation check_schema_version knows (arm `3 =>`).
LatestVersion == 3

\* r2d2 Pool::builder().max_size(15)
MaxSize == 15

LedgerTable == "schema_version"

\* Objects of each migration step (apply_*_migration).
InitialObjects ==
    {"vulnerabilities", "idx_vulnerability_search", "idx_vulnerability_sort"}

SoftwareTrackingObjects ==
    {"software_products", "software_versions", "affected_software"}

RobotObjects ==
    {"robots", "robot_software", "idx_robot_search", "idx_robot_software_lookup"}

\* Everything create_tables creates (CREATE ... IF NOT EXISTS).
AllObjects ==
    {LedgerTable} \cup InitialObjects \cup SoftwareTrackingObjects \cup RobotObjects
    \cup {"idx_software_product_search", "idx_software_version_lookup",
          "idx_affected_software_lookup"}

\* The tables test_establish_pool requires.
RequiredTables ==
    {"vulnerabilities", "robots", "software_products", "software_versions",
     "robot_software", "affected_software", "schema_version"}

\* COALESCE(MAX(version), 0)
MaxVersion(l) == IF l = {} THEN 0 ELSE CHOOSE v \in l : \A w \in l : w <= v

\* get_schema_version: creates the ledger table, reads the maximum version.
get_schema_version(l) == MaxVersion(l)

MigrationObjects(v) ==
    CASE v = 0 -> InitialObjects
      [] v = 1 -> SoftwareTrackingObjects
      [] v = 2 -> RobotObjects
      [] OTHER -> {}

\* A match that applies a step at every version.
StepsAtAnyVersion(v) == {v}

\* A match whose arm for version v applies the step after the next.
StepsSkipOne(v) == IF v + 1 < LatestVersion THEN {v + 1} ELSE {}

\* The steps one call of check_schema_version applies when it reads version v:
\* the match has one arm per version and no loop, so at most the step v -> v+1.
StepsFrom(v) == IF v < LatestVersion THEN {v} ELSE {}

\* The effect of check_schema_version on the database file.
\*   fail = "none"   : every statement succeeds
\*   fail = "ddl"    : the migration's DDL batch fails (nothing applied)
\*   fail = "ledger" : the DDL is applied, the INSERT into schema_version fails
CheckEffect(l, o, fail) ==
    LET v     == get_schema_version(l)
        steps == StepsFrom(v)
        o1    == o \cup {LedgerTable}
    IN  IF steps = {} \/ fail = "ddl"
        THEN [ledger |-> l, objects |-> o1, ok |-> (steps = {}), before |-> v]
        ELSE [ledger  |-> IF fail = "ledger" THEN l
                          ELSE l \cup {s + 1 : s \in steps},
              objects |-> o1 \cup UNION {MigrationObjects(s) : s \in steps},
              ok      |-> (fail = "none"),
              before  |-> v]

FailPoints == {"none", "ddl", "ledger"}

\* check_schema_version on a connection to the file (as test_migrations does).
CheckSchemaVersion(fail) ==
    LET e == CheckEffect(ledger, objects, fail)
    IN  /\ ledger' = e.ledger
        /\ objects' = e.objects
        /\ lastRun' = [ran |-> TRUE, before |-> e.before, after |-> MaxVersion(e.ledger),
                    ok |-> e.ok]
        /\ UNCHANGED <<pool, checkedOut, lastEstablish, waiting, lastGet, tableVars, csvVars, enrichVars, pageVars, keyVars, schedVars, viewVars>>

\* schema::create_tables on a pooled connection (App::init_database).
CreateTables ==
    /\ pool = "open"
    /\ checkedOut < MaxSize
    /\ objects' = objects \cup AllObjects
    /\ UNCHANGED <<ledger, pool, checkedOut, lastRun, lastEstablish, waiting, lastGet, tableVars, csvVars, enrichVars, pageVars, keyVars, schedVars, viewVars>>

\* establish_pool_with_path: build the pool, take one connection, create_tables,
\* check_schema_version, release the connection, return the pool.
\*   fail = "tables" : create_tables fails; otherwise as in CheckEffect.
EstablishPoolWithPath(fail) ==
    /\ pool = "closed"
    /\ UNCHANGED <<waiting, lastGet, tableVars, csvVars, enrichVars, pageVars, keyVars, schedVars, viewVars>>
    /\ IF fail = "tables"
       THEN /\ lastEstablish' = "err"
            /\ UNCHANGED <<ledger, objects, pool, checkedOut, lastRun>>
       ELSE LET e == CheckEffect(ledger, objects \cup AllObjects, fail)
            IN  /\ ledger' = e.ledger
                /\ objects' = e.objects
                /\ lastRun' = [ran |-> TRUE, before |-> e.before,
                               after |-> MaxVersion(e.ledger), ok |-> e.ok]
                /\ pool' = IF e.ok THEN "open" ELSE "closed"
                /\ lastEstablish' = IF e.ok THEN "ok" ELSE "err"
                /\ UNCHANGED checkedOut

\* A pool that never runs out of connections.
SlotAlwaysFree(n) == TRUE

\* r2d2 hands out a connection while fewer than max_size are checked out.
SlotFree(n) == n < MaxSize

\* Most calls of pool.get() blocked at a time.
MaxWaiting == 2

\* pool.get(): a free slot is handed out.
GetConn ==
    /\ pool = "open"
    /\ SlotFree(checkedOut)
    /\ checkedOut' = checkedOut + 1
    /\ lastGet' = "ok"
    /\ UNCHANGED <<ledger, objects, pool, lastRun, lastEstablish, waiting, tableVars, csvVars, enrichVars, pageVars, keyVars, schedVars, viewVars>>

\* pool.get() while no slot is free: the call blocks, for at most
\* connection_timeout.
GetConnBlocks ==
    /\ pool = "open"
    /\ ~SlotFree(checkedOut)
    /\ waiting < MaxWaiting
    /\ waiting' = waiting + 1
    /\ UNCHANGED <<ledger, objects, pool, checkedOut, lastRun, lastEstablish, lastGet, tableVars, csvVars, enrichVars, pageVars, keyVars, schedVars, viewVars>>

\* A blocked pool.get() is handed a connection that was released in time.
GetConnWakes ==
    /\ pool = "open"
    /\ waiting > 0
    /\ SlotFree(checkedOut)
    /\ waiting' = waiting - 1
    /\ checkedOut' = checkedOut + 1
    /\ lastGet' = "ok"
    /\ UNCHANGED <<ledger, objects, pool, lastRun, lastEstablish, tableVars, csvVars, enrichVars, pageVars, keyVars, schedVars, viewVars>>

\* connection_timeout elapses for a blocked pool.get(): it returns an error.
GetConnTimesOut ==
    /\ pool = "open"
    /\ waiting > 0
    /\ waiting' = waiting - 1
    /\ lastGet' = "err"
    /\ UNCHANGED <<ledger, objects, pool, checkedOut, lastRun, lastEstablish, tableVars, csvVars, enrichVars, pageVars, keyVars, schedVars, viewVars>>

\* A PooledConnection goes out of scope.
ReleaseConn ==
    /\ pool = "open"
    /\ checkedOut > 0
    /\ checkedOut' = checkedOut - 1
    /\ UNCHANGED <<ledger, objects, pool, lastRun, lastEstablish, waiting, lastGet, tableVars, csvVars, enrichVars, pageVars, keyVars, schedVars, viewVars>>

\* The process ends; the database file stays.
ProcessExit ==
    /\ pool = "open"
    /\ pool' = "closed"
    /\ checkedOut' = 0
    /\ lastEstablish' = None
    /\ waiting' = 0
    /\ lastGet' = None
    /\ UNCHANGED <<ledger, objects, lastRun, tableVars, csvVars, enrichVars, pageVars, keyVars, schedVars, viewVars>>

\* Option<T>: None is the empty sequence, Some(x) the one-element sequence.
NoneOpt == <<>>
Some(x) == <<x>>
IsSome(o) == o # <<>>

\* ---- state of a run of batch_update_vulnerabilities
NoRec == [cve_id |-> "", result |-> "none", fetched |-> FALSE,
          delayedBefore |-> TRUE, cols |-> {}]

NoReturn == [status |-> "none", count |-> 0]

NoSelection == [limit |-> 0, cves |-> <<>>]

\* The business keys of the rows the enrichment runs work on.
EnrichKeys == {"CVE-2023-0001", "CVE-2023-0002"}

\* The parts a specification does not exercise stay at these values.
EnrichIdle ==
    /\ epc = "idle"
    /\ batch = <<>>
    /\ updated_count = 0
    /\ returned = NoReturn
    /\ runNo = 0
    /\ runStart = {}
    /\ wrote = {}
    /\ filled = {}
    /\ lastRec = NoRec
    /\ sleptSinceFetch = TRUE
    /\ selection = NoSelection
    /\ nvdSeen = [k \in EnrichKeys |-> NoneOpt]
    /\ nvdChanged = {}

\* No load_vulnerabilities call has been made yet.
NoLoad ==
    [status |-> "none", search_query |-> "", page |-> 0, page_size |-> 0,
     sort_field |-> "None", sort_ascending |-> TRUE, filter_severity |-> "All",
     total_count |-> 0, items |-> <<>>, total_pages |-> 0]

PageIdle == loaded = NoLoad

\* No key was given to is_valid_cve_id.
KeyIdle == keyText = <<>> /\ keyValid = NoneOpt

\* The process is not running.
SchedIdle ==
    /\ mainPc = "off"
    /\ ctrlC = "off"
    /\ shutdownSent = 0
    /\ schedPc = "off"
    /\ tickReady = FALSE
    /\ batchLeft = 0
    /\ batchesRun = 0

\* The window is not open.
ViewIdle ==
    /\ app = [open |-> FALSE]
    /\ inflight = {}
    /\ issued = 0
    /\ latestReset = 0
    /\ viewTable = [rows |-> 0, high |-> 0]

MigIdle ==
    /\ ledger = {}
    /\ objects = {}
    /\ pool = "closed"
    /\ checkedOut = 0
    /\ lastRun = NoRun
    /\ lastEstablish = None
    /\ waiting = 0
    /\ lastGet = None

TableEmpty ==
    /\ vulns = {}
    /\ autoinc = 0

NoImport == [status |-> "none", header_line |-> 0, headers |-> <<>>,
             processed |-> <<>>, count |-> 0, failed_batch |-> 0]

NoFirst == [status |-> "none", vulns |-> {}]

CsvIdle ==
    /\ feed = <<>>
    /\ importResult = NoImport
    /\ imports = 0
    /\ afterFirst = NoFirst

MigInit ==
    /\ TableEmpty
    /\ CsvIdle
    /\ EnrichIdle
    /\ PageIdle
    /\ KeyIdle
    /\ SchedIdle
    /\ ViewIdle
    /\ ledger = {}
    /\ objects = {}
    /\ pool = "closed"
    /\ checkedOut = 0
    /\ lastRun = NoRun
    /\ lastEstablish = None
    /\ waiting = 0
    /\ lastGet = None

MigNext ==
    \/ \E f \in FailPoints : CheckSchemaVersion(f)
    \/ \E f \in FailPoints \cup {"tables"} : EstablishPoolWithPath(f)
    \/ CreateTables
    \/ GetConn
    \/ GetConnBlocks
    \/ GetConnWakes
    \/ GetConnTimesOut
    \/ ReleaseConn
    \/ ProcessExit

SpecMig == MigInit /\ [][MigNext]_vars

\* C1: one successful run of check_schema_version, started at any ledger version
\* 0..3, returns with the ledger's maximum version equal to the latest version 3.
C1_SingleRunReachesLatest ==
    (lastRun.ran /\ lastRun.ok) => lastRun.after = LatestVersion

\* C2: whenever establish_pool_with_path has returned a pool, the schema is fully
\* migrated: every required table exists and the ledger version is 3.
C2_PoolSeesMigratedSchema ==
    pool = "open" =>
        /\ RequiredTables \subseteq objects
        /\ MaxVersion(ledger) = LatestVersion

\* A run of the migration engine: a call of check_schema_version, directly or
\* from establish_pool_with_path after create_tables succeeded.
MigrationRun ==
    \/ \E f \in FailPoints : CheckSchemaVersion(f)
    \/ \E f \in FailPoints : EstablishPoolWithPath(f)

\* C18: a run of the migration engine on a database already at the latest
\* version adds no row to the ledger, leaves the version at 3 and succeeds,
\* however often it is repeated.
C18_RerunAtLatestIsNoOp ==
    [][(MaxVersion(ledger) = LatestVersion /\ MigrationRun) =>
           /\ ledger' = ledger
           /\ MaxVersion(ledger') = LatestVersion
           /\ lastRun'.ok
           /\ lastRun'.before = LatestVersion
           /\ lastRun'.after = LatestVersion]_vars

\* C18 witness: the engine ran on a ledger at version 3 and returned.
C18_RanAtLatest ==
    /\ lastRun.ran
    /\ lastRun.before = LatestVersion
    /\ ledger = 1..LatestVersion

\* C19: never more than the maximum of 15 connections are checked out; while
\* the maximum is checked out no call of pool.get() yields a connection, and a
\* blocked call whose timeout elapses returns an error; when a held connection
\* has been released a call of pool.get() can be made and yields a connection.
C19_PoolNeverExceedsMaximum ==
    /\ [](checkedOut <= MaxSize)
    /\ [][/\ checkedOut = MaxSize => (checkedOut' <= checkedOut /\ (lastGet' # lastGet => lastGet' # "ok"))
          /\ GetConnTimesOut => (lastGet' = "err" /\ checkedOut' = checkedOut)
          /\ (pool = "open" /\ checkedOut < MaxSize) =>
                 /\ ENABLED GetConn
                 /\ (GetConn \/ GetConnWakes) => (checkedOut' = checkedOut + 1 /\ lastGet' = "ok")]_vars

\* C19 witness: with 15 connections checked out a call of pool.get() timed out.
C19_TimedOutAtMaximum ==
    /\ pool = "open"
    /\ checkedOut = MaxSize
    /\ lastGet = "err"

\* The schema generations of which some object exists in the file.
GenerationsPresent == {v \in 1..LatestVersion : MigrationObjects(v - 1) \cap objects # {}}

\* C21: a migration step is atomic: in no reachable state does an object of a
\* generation exist while the ledger's maximum version is lower than that
\* generation.
C21_ObjectsNeverAheadOfLedger ==
    \A v \in GenerationsPresent : v <= MaxVersion(ledger)

\* C22: the ledger holds exactly the versions 1..max, and a step of the
\* specification either leaves it as it is or appends the version max + 1 (so a
\* version, once recorded, is neither removed nor recorded again).
C22_LedgerAppendOnlyNoGap ==
    /\ [](ledger = 1..MaxVersion(ledger))
    /\ [][ledger' = ledger \/ ledger' = ledger \cup {MaxVersion(ledger) + 1}]_vars

\* C22 witness: the run that read version 2 recorded version 3, after the runs
\* that recorded 1 and 2.
C22_ThirdStepRecorded ==
    /\ lastRun.ok
    /\ lastRun.before = 2
    /\ ledger = {1, 2, 3}

(***************************************************************************)
(* Strings.  A text value is a TLA+ string; the case conversions are given *)
(* on the vocabulary the model uses (any other string of the model has no  *)
(* upper-case / lower-case letter to convert).                             *)
(***************************************************************************)

\* str::to_lowercase
to_lowercase(s) ==
    CASE s \in {"Name", "NAME"} -> "name"
      [] s \in {"Status", "STATUS"} -> "status"
      [] s \in {"Description", "DESCRIPTION"} -> "description"
      [] s \in {"References", "REFERENCES"} -> "references"
      [] s \in {"Phase", "PHASE"} -> "phase"
      [] s \in {"Votes", "VOTES"} -> "votes"
      [] s \in {"Comments", "COMMENTS"} -> "comments"
      [] s \in {"High", "HIGH"} -> "high"
      [] s \in {"Medium", "MEDIUM"} -> "medium"
      [] s \in {"Low", "LOW"} -> "low"
      [] s \in {"Unknown", "UNKNOWN"} -> "unknown"
      [] s \in {"Critical", "CRITICAL"} -> "critical"
      [] s \in {"Entry", "ENTRY"} -> "entry"
      [] s \in {"Candidate", "CANDIDATE"} -> "candidate"
      [] s \in {"Other", "OTHER"} -> "other"
      [] OTHER -> s

\* str::to_uppercase
to_uppercase(s) ==
    CASE s \in {"High", "high", "HIGH"} -> "HIGH"
      [] s \in {"Medium", "medium", "MEDIUM"} -> "MEDIUM"
      [] s \in {"Low", "low", "LOW"} -> "LOW"
      [] s \in {"Unknown", "unknown", "UNKNOWN"} -> "UNKNOWN"
      [] s \in {"Critical", "critical", "CRITICAL"} -> "CRITICAL"
      [] OTHER -> s

eq_ignore_ascii_case(a, b) == to_lowercase(a) = to_lowercase(b)

\* str::trim on the texts of the model: the blank ones become empty.
trim(s) == IF s \in {"", " "} THEN "" ELSE s

(***************************************************************************)
(* Business keys, character by character.                                  *)
(***************************************************************************)

\* The characters of the texts the model uses.
Chars(s) ==
    CASE s = "CVE-2023-0001"  -> <<"C","V","E","-","2","0","2","3","-","0","0","0","1">>
      [] s = "CVE-2023-0002"  -> <<"C","V","E","-","2","0","2","3","-","0","0","0","2">>
      [] s = "cve-2023-0001"  -> <<"c","v","e","-","2","0","2","3","-","0","0","0","1">>
      [] s = "CVE-2023-12345" -> <<"C","V","E","-","2","0","2","3","-","1","2","3","4","5">>
      [] s = "CVE-1999-00001" -> <<"C","V","E","-","1","9","9","9","-","0","0","0","0","1">>
      [] s = "CVE-99-0001"    -> <<"C","V","E","-","9","9","-","0","0","0","1">>
      [] s = "CVE-2023-ABC"   -> <<"C","V","E","-","2","0","2","3","-","A","B","C">>
      [] s = "CVE-2023-001"   -> <<"C","V","E","-","2","0","2","3","-","0","0","1">>
      [] s = "CWE-1999-0001"  -> <<"C","W","E","-","1","9","9","9","-","0","0","0","1">>
      [] s = "INVALID-ID"     -> <<"I","N","V","A","L","I","D","-","I","D">>
      [] s = "d0"             -> <<"d","0">>
      [] s = "d1"             -> <<"d","1">>
      [] s = " "              -> <<" ">>
      [] s = "2020-01-01"     -> <<"2","0","2","0","-","0","1","-","0","1">>
      [] s = "2021-02-02"     -> <<"2","0","2","1","-","0","2","-","0","2">>
      [] s = "9999-12-31"     -> <<"9","9","9","9","-","1","2","-","3","1">>
      [] s = ""               -> <<>>
      [] OTHER                -> <<"?">>

Digits == {"0", "1", "2", "3", "4", "5", "6", "7", "8", "9"}

LowerChar(c) ==
    CASE c = "C" -> "c" [] c = "V" -> "v" [] c = "E" -> "e" [] c = "W" -> "w"
      [] c = "A" -> "a" [] c = "B" -> "b" [] c = "I" -> "i" [] c = "N" -> "n"
      [] c = "L" -> "l" [] c = "D" -> "d" [] OTHER -> c

\* str::split(sep) on a sequence of characters.
RECURSIVE SplitFrom(_, _, _, _)
SplitFrom(cs, sep, i, cur) ==
    IF i > Len(cs) THEN <<cur>>
    ELSE IF cs[i] = sep THEN <<cur>> \o SplitFrom(cs, sep, i + 1, <<>>)
    ELSE SplitFrom(cs, sep, i + 1, Append(cur, cs[i]))

Split(cs, sep) == SplitFrom(cs, sep, 1, <<>>)

AllDigits(part) == \A i \in 1..Len(part) : part[i] \in Digits

is_valid_cve_chars(cs) ==
    LET parts == Split(cs, "-")
    IN  /\ Len(parts) = 3
        /\ [i \in 1..Len(parts[1]) |-> LowerChar(parts[1][i])] = <<"c", "v", "e">>
        /\ Len(parts[2]) = 4 /\ AllDigits(parts[2])
        /\ Len(parts[3]) >= 4 /\ AllDigits(parts[3])

is_valid_cve_id(cve_id) == is_valid_cve_chars(Chars(cve_id))

(***************************************************************************)
(* Dates.  A NaiveDate is <<year, month, day>>; the column holds its text. *)
(***************************************************************************)

\* NaiveDate::parse_from_str(s, "%Y-%m-%d"), on the date texts of the model.
parse_ymd(s) ==
    CASE s = "2020-01-01" -> Some(<<2020, 1, 1>>)
      [] s = "2021-02-02" -> Some(<<2021, 2, 2>>)
      [] s = "2005-12-17" -> Some(<<2005, 12, 17>>)
      [] OTHER -> NoneOpt

\* NaiveDate::to_string
date_to_string(d) ==
    CASE d = <<2020, 1, 1>> -> "2020-01-01"
      [] d = <<2021, 2, 2>> -> "2021-02-02"
      [] d = <<2005, 12, 17>> -> "2005-12-17"
      [] OTHER -> "0000-00-00"

\* parse_date: "Modified (20051217)" or "YYYY-MM-DD"; NoneOpt is the Err case.
parse_date(s) ==
    CASE s = "Modified (20051217)" -> Some(<<2005, 12, 17>>)
      [] s = "Modified (2005)" -> NoneOpt
      [] OTHER -> parse_ymd(s)

(***************************************************************************)
(* Importer                                                                *)
(***************************************************************************)

\* const BATCH_SIZE
BATCH_SIZE == 1000

expected_headers ==
    <<"Name", "Status", "Description", "References", "Phase", "Votes", "Comments">>

\* The fields find_header_line sees on a line: split(',') of an empty line is
\* one empty field.
LineFields(line) == IF line = <<>> THEN <<"">> ELSE line

IsHeaderLine(line) ==
    LET fields == LineFields(line)
    IN  /\ Len(fields) >= Len(expected_headers)
        /\ \A i \in 1..Len(expected_headers) :
              eq_ignore_ascii_case(expected_headers[i], fields[i])

\* find_header_line: the zero-based number of the first line that matches, or -1
\* (the Err "Header row not found").
find_header_line(lines) ==
    IF \E i \in 1..Len(lines) : IsHeaderLine(lines[i])
    THEN (CHOOSE i \in 1..Len(lines) :
              /\ IsHeaderLine(lines[i])
              /\ \A j \in 1..(i - 1) : ~IsHeaderLine(lines[j])) - 1
    ELSE -1

\* ---- csv::Reader (has_headers = true, flexible = false, Trim::All) as the
\* importer drives it.  pos: the next line to read; headers: the header record
\* once set; ffc: the field count of the first record read (-1: none yet).
NewReader == [pos |-> 1, headers |-> NoneOpt, ffc |-> -1]

\* The reader skips empty lines.
NextRecordLine(lines, i) ==
    IF \E j \in i..Len(lines) : lines[j] # <<>>
    THEN CHOOSE j \in i..Len(lines) :
             /\ lines[j] # <<>>
             /\ \A k \in i..(j - 1) : lines[k] = <<>>
    ELSE IF i > Len(lines) THEN i ELSE Len(lines) + 1

\* Reader::read_byte_record_impl: the next record, "eof", or "err" when its
\* number of fields differs from the first record's (UnequalLengths).
ReadImpl(lines, rd) ==
    LET i == NextRecordLine(lines, rd.pos)
    IN  IF i > Len(lines)
        THEN [rd |-> [rd EXCEPT !.pos = i], res |-> "eof", rec |-> <<>>, line |-> 0]
        ELSE IF rd.ffc = -1
        THEN [rd |-> [rd EXCEPT !.pos = i + 1, !.ffc = Len(lines[i])],
              res |-> "ok", rec |-> lines[i], line |-> i]
        ELSE [rd |-> [rd EXCEPT !.pos = i + 1],
              res |-> IF Len(lines[i]) = rd.ffc THEN "ok" ELSE "err",
              rec |-> lines[i], line |-> i]

\* Reader::read_record: with has_headers the first record read becomes the
\* header row and is never returned; the record after it is.
ReadRecord(lines, rd) ==
    LET a == ReadImpl(lines, rd)
    IN  IF a.res = "err" THEN a
        ELSE IF a.rd.headers = NoneOpt
        THEN ReadImpl(lines, [a.rd EXCEPT !.headers = Some(a.rec)])
        ELSE a

\* Reader::headers: reads the first record when no header row is set yet.
Headers(lines, rd) ==
    IF rd.headers = NoneOpt
    THEN LET a == ReadImpl(lines, rd)
         IN  IF a.res = "err"
             THEN [rd |-> a.rd, res |-> "err", headers |-> <<>>]
             ELSE [rd |-> [a.rd EXCEPT !.headers = Some(a.rec)], res |-> "ok",
                   headers |-> a.rec]
    ELSE [rd |-> rd, res |-> "ok", headers |-> rd.headers[1]]

\* The loop `for _ in 0..header_line { rdr.read_record(..)? }`.
RECURSIVE SkipLines(_, _, _)
SkipLines(lines, rd, n) ==
    IF n = 0 THEN [rd |-> rd, res |-> "ok"]
    ELSE LET a == ReadRecord(lines, rd)
         IN  IF a.res = "err" THEN [rd |-> a.rd, res |-> "err"]
             ELSE IF a.res = "eof" THEN [rd |-> a.rd, res |-> "ok"]
             ELSE SkipLines(lines, a.rd, n - 1)

\* validate_csv_headers: compares expected and actual pairwise, over the
\* shorter of the two (zip).
HeadersValid(headers) ==
    \A i \in 1..Len(expected_headers) :
        i <= Len(headers) => eq_ignore_ascii_case(expected_headers[i], headers[i])

\* Column of a serde field: the header with exactly that name.
HasColumn(headers, name) == \E j \in 1..Len(headers) : headers[j] = name
Column(headers, name) == CHOOSE j \in 1..Len(headers) : headers[j] = name

OptField(headers, rec, name) ==
    IF HasColumn(headers, name) /\ rec[Column(headers, name)] # ""
    THEN Some(rec[Column(headers, name)])
    ELSE NoneOpt

\* StringRecord::deserialize into VulnerabilityCsvRecord; NoneOpt is the Err case
\* (a String field whose column is missing).
Deserialize(headers, rec) ==
    IF \A n \in {"Name", "Status", "Description"} : HasColumn(headers, n)
    THEN Some([cve_id         |-> rec[Column(headers, "Name")],
               severity       |-> rec[Column(headers, "Status")],
               description    |-> rec[Column(headers, "Description")],
               references     |-> OptField(headers, rec, "References"),
               published_date |-> OptField(headers, rec, "Phase"),
               impact         |-> OptField(headers, rec, "Votes"),
               mitigation     |-> OptField(headers, rec, "Comments")])
    ELSE NoneOpt

non_empty_string(s) == IF trim(s) = "" THEN NoneOpt ELSE Some(trim(s))

parse_severity(raw_severity) ==
    LET l == to_lowercase(raw_severity)
    IN  CASE l \in {"high", "entry"} -> "High"
          [] l \in {"medium", "candidate"} -> "Medium"
          [] l = "low" -> "Low"
          [] OTHER -> "Unknown"

\* process_csv_record: NoneOpt is the Err case (the row is skipped).
process_csv_record(record_result) ==
    IF record_result = NoneOpt THEN NoneOpt
    ELSE LET record == record_result[1]
         IN  IF ~is_valid_cve_id(record.cve_id) THEN NoneOpt
             ELSE Some([vulnerability_id |-> NoneOpt,
                        cve_id         |-> record.cve_id,
                        description    |-> non_empty_string(record.description),
                        severity       |-> parse_severity(record.severity),
                        impact         |-> record.impact,
                        mitigation     |-> record.mitigation,
                        published_date |->
                            IF record.published_date = NoneOpt THEN NoneOpt
                            ELSE parse_date(record.published_date[1])])

\* A test that takes no record for metadata.
NeverMetadata(vuln) == FALSE

is_metadata_record(vuln) ==
    vuln.description = NoneOpt /\ vuln.impact = NoneOpt /\ vuln.mitigation = NoneOpt

\* The lines the reader yields as records from line `from` on (it skips empty
\* lines).
RecordLines(lines, from) ==
    SelectSeq([i \in 1..Len(lines) |-> i], LAMBDA i : i >= from /\ lines[i] # <<>>)

\* The deserialize loop: every record the reader yields after the header, with
\* the physical line it came from and the Vulnerability it gave (NoneOpt: skipped).
\* Between two records only the reader's position changes.
DeserializeAll(lines, rd, headers) ==
    LET at == RecordLines(lines, rd.pos)
    IN  [k \in 1..Len(at) |->
            LET a == ReadRecord(lines, [rd EXCEPT !.pos = at[k]])
            IN  [line |-> a.line,
                 vuln |-> IF a.res = "err" THEN NoneOpt
                          ELSE process_csv_record(Deserialize(headers, a.rec))]]

\* One row of the vulnerabilities table from a Vulnerability
\* (INSERT OR REPLACE ... VALUES (?1 .. ?6)).
RowOf(vuln, id) ==
    [vulnerability_id |-> id,
     cve_id         |-> vuln.cve_id,
     description    |-> vuln.description,
     severity       |-> vuln.severity,
     impact         |-> vuln.impact,
     mitigation     |-> vuln.mitigation,
     published_date |-> IF vuln.published_date = NoneOpt THEN NoneOpt
                        ELSE Some(date_to_string(vuln.published_date[1]))]

\* An insert into a table without the UNIQUE constraint: the old row stays.
InsertKeepingOld(tbl, seq, vulnerabilities) ==
    [vulns   |-> tbl \cup {RowOf(vulnerabilities[i], seq + i) : i \in 1..Len(vulnerabilities)},
     autoinc |-> seq + Len(vulnerabilities)]

\* The position in a batch of the last Vulnerability with the key k.
LastOf(vulnerabilities, k) ==
    LET n == Len(vulnerabilities)
        d == CHOOSE d \in 0..(n - 1) :
                 /\ vulnerabilities[n - d].cve_id = k
                 /\ \A e \in 0..(d - 1) : vulnerabilities[n - e].cve_id # k
    IN  n - d

\* insert_vulnerabilities: INSERT OR REPLACE for each vuln in turn, the i-th
\* taking the i-th next AUTOINCREMENT id.  cve_id is UNIQUE, so a row with the
\* same key is replaced: of the rows of one key the last inserted stays.
insert_vulnerabilities(tbl, seq, vulnerabilities) ==
    LET keys == {vulnerabilities[i].cve_id : i \in 1..Len(vulnerabilities)}
    IN  [vulns   |-> {r \in tbl : r.cve_id \notin keys}
                         \cup {LET i == LastOf(vulnerabilities, k)
                               IN  RowOf(vulnerabilities[i], seq + i) : k \in keys},
         autoinc |-> seq + Len(vulnerabilities)]

\* A record that reaches a batch.
IsAccepted(item) ==
    IF item.vuln = NoneOpt THEN FALSE ELSE ~is_metadata_record(item.vuln[1])

\* The Vulnerabilities that reach a batch, in feed order.
Accepted(items) ==
    LET kept == SelectSeq(items, IsAccepted)
    IN  [i \in 1..Len(kept) |-> kept[i].vuln[1]]

\* The batches of at most BATCH_SIZE the import loop hands to insert_batch.
RECURSIVE Batches(_)
Batches(vs) ==
    IF vs = <<>> THEN <<>>
    ELSE IF Len(vs) <= BATCH_SIZE THEN <<vs>>
    ELSE <<SubSeq(vs, 1, BATCH_SIZE)>> \o Batches(SubSeq(vs, BATCH_SIZE + 1, Len(vs)))

\* How an insert_batch call can fail: at pool.get, at connection.transaction,
\* at an execute of insert_vulnerabilities, at transaction.commit.
FailKinds == {"get", "begin", "insert", "commit"}

\* A drop that keeps what the transaction wrote.
DropCommits(before, tx) == tx

\* Drop of a Transaction that was not committed (DropBehavior::Rollback): the
\* table and the AUTOINCREMENT counter are as before the transaction.
DropTransaction(before, tx) == before

\* insert_batch(pool, batch); fail = "none": every step succeeds.
insert_batch(tbl, seq, vulnerabilities, fail) ==
    LET before   == [vulns |-> tbl, autoinc |-> seq]
        executed == IF fail = "insert"
                    THEN SubSeq(vulnerabilities, 1, Len(vulnerabilities) - 1)
                    ELSE vulnerabilities
        tx       == insert_vulnerabilities(tbl, seq, executed)
        after    == CASE fail \in {"get", "begin"} -> before
                      [] fail \in {"insert", "commit"} -> DropTransaction(before, tx)
                      [] OTHER -> tx
    IN  [ok       |-> fail = "none",
         vulns    |-> after.vulns,
         autoinc  |-> after.autoinc,
         inserted |-> IF fail = "none" THEN Len(vulnerabilities) ELSE 0]

\* insert_batch for each batch in turn, successful_imports in count; the failAt-th
\* call fails (0: none does), which ends the import with an error.
RECURSIVE InsertBatches(_, _, _, _, _, _, _)
InsertBatches(tbl, seq, batches, n, failAt, fail, count) ==
    IF batches = <<>>
    THEN [vulns |-> tbl, autoinc |-> seq, ok |-> TRUE, count |-> count, failed_batch |-> 0]
    ELSE LET r == insert_batch(tbl, seq, batches[1], IF n = failAt THEN fail ELSE "none")
         IN  IF ~r.ok
             THEN [vulns |-> r.vulns, autoinc |-> r.autoinc, ok |-> FALSE,
                   count |-> count, failed_batch |-> n]
             ELSE InsertBatches(r.vulns, r.autoinc, Tail(batches), n + 1, failAt, fail,
                                count + r.inserted)

\* import_vulnerabilities_from_csv on the lines of a file.
ImportFeed(lines, tbl, seq, failAt, fail) ==
    LET header_line == find_header_line(lines)
        failed(st)  == [status |-> st, header_line |-> header_line, headers |-> <<>>,
                        processed |-> <<>>, count |-> 0, failed_batch |-> 0,
                        vulns |-> tbl, autoinc |-> seq]
        \* The end of the call, from the records read and what the batches gave.
        finish(headers, items, ins) ==
            [status       |-> IF ins.ok THEN "ok" ELSE "insert_error",
             header_line  |-> header_line,
             headers      |-> headers,
             processed    |-> [i \in 1..Len(items) |-> items[i].line],
             count        |-> IF ins.ok THEN ins.count ELSE 0,
             failed_batch |-> ins.failed_batch,
             vulns        |-> ins.vulns,
             autoinc      |-> ins.autoinc]
        \* The record loop and its batches.
        load(headers, items) ==
            finish(headers, items,
                   InsertBatches(tbl, seq, Batches(Accepted(items)), 1, failAt, fail, 0))
        \* validate_csv_headers, then the record loop.
        validate(hdr) ==
            IF hdr.res = "err" THEN failed("read_error")
            ELSE IF ~HeadersValid(hdr.headers)
            THEN [failed("header_mismatch") EXCEPT !.headers = hdr.headers]
            ELSE load(hdr.headers, DeserializeAll(lines, hdr.rd, hdr.headers))
        \* After the skip loop.
        skip(skipped) ==
            IF skipped.res = "err" THEN failed("read_error")
            ELSE validate(Headers(lines, skipped.rd))
    IN  IF header_line = -1 THEN failed("header_not_found")
        ELSE skip(SkipLines(lines, NewReader, header_line))

(***************************************************************************)
(* Specification of the importer: one import of a feed made of leading     *)
(* non-tabular lines, the header row and data rows.                        *)
(***************************************************************************)

\* Most leading non-tabular lines, and most data rows, of a feed.
MaxPreamble == 2
MaxRows == 3

\* Leading lines: an empty line, a line of one field, a line of seven fields.
PreambleLines ==
    {<<>>, <<"** cve list **">>, <<"a", "b", "c", "d", "e", "f", "g">>}

DataRows ==
    {<<"CVE-2023-0001", "Entry", "d0", "ref", "2020-01-01", "i", "m">>,
     <<"CVE-2023-0002", "Other", "d0", "", "", "", "">>,
     <<"INVALID-ID", "Entry", "d0", "", "", "", "">>,
     <<"CVE-2023-0002", "Candidate", "", "", "", "", "">>,
     <<"CVE-2023-12345", "Low", "", "", "", "", "m">>,
     <<"CVE-1999-00001", "Entry", "d0", "", "Modified (2005)", "i", "m">>}

SeqsUpTo(S, n) == UNION {[1..k -> S] : k \in 0..n}

CsvFeeds ==
    {p \o <<expected_headers>> \o r :
        p \in SeqsUpTo(PreambleLines, MaxPreamble), r \in SeqsUpTo(DataRows, MaxRows)}

\* Most imports of the feed.
MaxImports == 2

\* import_vulnerabilities_from_csv(file_path, pool) on the feed.
ImportVulnerabilitiesFromCsv(failAt, fail) ==
    /\ imports < MaxImports
    /\ \E r \in {ImportFeed(feed, vulns, autoinc, failAt, fail)} :
           /\ importResult' = [status |-> r.status, header_line |-> r.header_line,
                               headers |-> r.headers, processed |-> r.processed,
                               count |-> r.count, failed_batch |-> r.failed_batch]
           /\ vulns' = r.vulns
           /\ autoinc' = r.autoinc
           /\ afterFirst' = IF imports = 0
                            THEN [status |-> r.status, vulns |-> r.vulns]
                            ELSE afterFirst
    /\ imports' = imports + 1
    /\ UNCHANGED <<feed, migVars, enrichVars, pageVars, keyVars, schedVars, viewVars>>

CsvInit ==
    /\ MigIdle
    /\ TableEmpty
    /\ feed \in CsvFeeds
    /\ importResult = NoImport
    /\ imports = 0
    /\ afterFirst = NoFirst
    /\ EnrichIdle
    /\ PageIdle
    /\ KeyIdle
    /\ SchedIdle
    /\ ViewIdle

CsvNext ==
    \E failAt \in 0..1 : imports = 0 /\ ImportVulnerabilitiesFromCsv(failAt, "commit")

SpecCsv == CsvInit /\ [][CsvNext]_vars

\* The lines after the header of a feed.
RowLines(lines) ==
    [i \in 1..(Len(lines) - find_header_line(lines) - 1) |->
        i + find_header_line(lines) + 1]

\* C9: for a feed of k >= 0 leading non-tabular lines, a valid header row and data
\* rows, the import takes the line find_header_line discovered as the header row,
\* passes header validation and processes exactly the lines after the header.
C9_ImportStartsAtDiscoveredHeader ==
    importResult.status # "none" =>
        /\ importResult.status \in {"ok", "insert_error"}
        /\ importResult.headers = feed[importResult.header_line + 1]
        /\ importResult.processed = RowLines(feed)

\* The business key format CVE-dddd-dddd...: the prefix, a year of four digits
\* and a sequence of four or more digits.
KeyFormat(cs) ==
    /\ Len(cs) >= 13
    /\ SubSeq(cs, 1, 4) = <<"C", "V", "E", "-">>
    /\ \A i \in 5..8 : cs[i] \in Digits
    /\ cs[9] = "-"
    /\ \A i \in 10..Len(cs) : cs[i] \in Digits

\* A feed row with a valid business key and a description, impact or mitigation.
WellFormedRow(row) ==
    /\ Len(row) = Len(expected_headers)
    /\ KeyFormat(Chars(row[1]))
    /\ trim(row[3]) # "" \/ row[6] # "" \/ row[7] # ""

\* The lines of the feed after the header that hold such a row.
WellFormedLines(lines) ==
    {i \in (find_header_line(lines) + 2)..Len(lines) : WellFormedRow(lines[i])}

DateUnparsable(row) == row[5] # "" /\ parse_date(row[5]) = NoneOpt

\* C25: a row whose date field is present but cannot be parsed is skipped: the
\* import counts and inserts exactly the well-formed rows whose date field is
\* absent or parses, and these are all imported.
C25_UnparsableDateRowSkipped ==
    (importResult.status = "ok" /\ find_header_line(feed) = 0) =>
        LET kept == {i \in WellFormedLines(feed) : ~DateUnparsable(feed[i])}
        IN  /\ importResult.count = Cardinality(kept)
            /\ {r.cve_id : r \in vulns} = {feed[i][1] : i \in kept}

(***************************************************************************)
(* Specification of header validation: one import of a feed whose first    *)
(* line is a header row, well formed or not, followed by data rows.        *)
(***************************************************************************)

\* Most data rows of such a feed.
MaxHeaderRows == 2

\* Header rows: the expected one, one in another case, one with a renamed
\* column, one with two columns exchanged, one without its last column and one
\* with a column after the seven.
HeaderRows ==
    {expected_headers,
     <<"NAME", "Status", "Description", "References", "Phase", "Votes", "COMMENTS">>,
     <<"Name", "State", "Description", "References", "Phase", "Votes", "Comments">>,
     <<"Status", "Name", "Description", "References", "Phase", "Votes", "Comments">>,
     <<"Name", "Status", "Description", "References", "Phase", "Votes">>,
     <<"Name", "Status", "Description", "References", "Phase", "Votes", "Comments", "Extra">>}

\* Data rows of seven and of eight fields.
HeaderDataRows ==
    {<<"CVE-2023-0001", "Entry", "d0", "ref", "2020-01-01", "i", "m">>,
     <<"CVE-2023-0002", "Other", "d0", "", "", "", "">>,
     <<"CVE-2023-12345", "Entry", "d0", "", "", "i", "m", "x">>}

HeaderFeeds ==
    {<<h>> \o r : h \in HeaderRows, r \in SeqsUpTo(HeaderDataRows, MaxHeaderRows)}

HeaderInit ==
    /\ MigIdle
    /\ TableEmpty
    /\ feed \in HeaderFeeds
    /\ importResult = NoImport
    /\ imports = 0
    /\ afterFirst = NoFirst
    /\ EnrichIdle
    /\ PageIdle
    /\ KeyIdle
    /\ SchedIdle
    /\ ViewIdle

HeaderNext ==
    \E failAt \in 0..1 : imports = 0 /\ ImportVulnerabilitiesFromCsv(failAt, "commit")

SpecHeader == HeaderInit /\ [][HeaderNext]_vars

\* The record is the seven expected names in the expected order, in any case.
ExactHeader(h) ==
    /\ Len(h) = Len(expected_headers)
    /\ \A i \in 1..Len(expected_headers) : eq_ignore_ascii_case(expected_headers[i], h[i])

\* C26: header validation passes only for a header record of exactly the seven
\* expected names in order (in any case); for a header with a renamed or
\* exchanged column, with fewer than seven columns or with extra columns the
\* import fails and inserts nothing.
C26_OnlyExactHeaderPasses ==
    (importResult.status # "none" /\ ~ExactHeader(feed[1])) =>
        /\ importResult.status \notin {"ok", "insert_error"}
        /\ vulns = {}

(***************************************************************************)
(* Specification of repeated imports: a feed that starts with its header   *)
(* row is imported up to MaxImports times, and a call of insert_batch may  *)
(* fail.                                                                   *)
(***************************************************************************)

\* A feed of more rows than one batch holds: BATCH_SIZE rows of one key, then a
\* row of another.
LongFeed ==
    <<expected_headers>> \o
    [i \in 1..(BATCH_SIZE + 1) |->
        IF i <= BATCH_SIZE
        THEN <<"CVE-2023-0001", "Entry", "d0", "ref", "2020-01-01", "i", "m">>
        ELSE <<"CVE-2023-0002", "Other", "d0", "", "", "", "">>]

ReimportFeeds ==
    {<<expected_headers>> \o r : r \in SeqsUpTo(DataRows, MaxRows)} \cup {LongFeed}

\* The calls of insert_batch that can be made to fail.
MaxFailAt == 2

ReimportInit ==
    /\ MigIdle
    /\ TableEmpty
    /\ feed \in ReimportFeeds
    /\ importResult = NoImport
    /\ imports = 0
    /\ afterFirst = NoFirst
    /\ EnrichIdle
    /\ PageIdle
    /\ KeyIdle
    /\ SchedIdle
    /\ ViewIdle

ReimportNext ==
    \E failAt \in 0..MaxFailAt, fail \in FailKinds :
        /\ failAt = 0 => fail = "commit"
        /\ ImportVulnerabilitiesFromCsv(failAt, fail)

SpecReimport == ReimportInit /\ [][ReimportNext]_vars

\* C14: no two rows of the table share a cve_id, and a second import of the
\* feed leaves the same business keys and the same number of rows as the first.
C14_ReimportIsIdempotent ==
    /\ \A r1, r2 \in vulns : r1.cve_id = r2.cve_id => r1 = r2
    /\ (imports >= 2 /\ afterFirst.status = "ok" /\ importResult.status = "ok") =>
           /\ {r.cve_id : r \in vulns} = {r.cve_id : r \in afterFirst.vulns}
           /\ Cardinality(vulns) = Cardinality(afterFirst.vulns)

\* C14 witness: a feed that gives two rows was imported twice.
C14_ImportedTwice ==
    /\ imports = 2
    /\ afterFirst.status = "ok"
    /\ importResult.status = "ok"
    /\ Cardinality(afterFirst.vulns) >= 2
    /\ vulns # afterFirst.vulns

\* The table before the latest import.
PriorTable == IF imports = 1 THEN {} ELSE afterFirst.vulns

\* The keys of the rows of the feed that went into the batches before the one
\* that failed.
CommittedKeys ==
    LET rows == SelectSeq(Tail(feed), WellFormedRow)
        n    == (importResult.failed_batch - 1) * BATCH_SIZE
    IN  {rows[i][1] : i \in 1..n}

\* C15: when a call of insert_batch fails (at an insert or at the commit), the
\* import returns an error and no count, no row of the failed batch or of a
\* later batch is visible, and the rows of the batches committed before it are:
\* the table holds the keys it held before the import and the keys of the
\* committed batches, and every earlier row of another key is untouched.
C15_FailedBatchLeavesNoRow ==
    (imports \in 1..2 /\ importResult.status = "insert_error") =>
        /\ importResult.count = 0
        /\ importResult.failed_batch >= 1
        /\ {r.cve_id : r \in vulns} = {r.cve_id : r \in PriorTable} \cup CommittedKeys
        /\ \A r \in PriorTable : r.cve_id \notin CommittedKeys => r \in vulns
        /\ CommittedKeys = {} => vulns = PriorTable

\* C15 witness: the second batch of the long feed failed; the key of the first
\* batch is in the table and the key of the second is not.
C15_SecondBatchFailed ==
    /\ feed = LongFeed
    /\ imports = 1
    /\ importResult.status = "insert_error"
    /\ importResult.failed_batch = 2
    /\ {r.cve_id : r \in vulns} = {"CVE-2023-0001"}

(***************************************************************************)
(* Specification of key validation: is_valid_cve_id on a candidate key     *)
(* made of up to MaxKeyParts parts joined by '-'.                          *)
(***************************************************************************)

\* Most parts of a candidate key.
MaxKeyParts == 4

\* The parts: prefixes, years and sequences, well-formed and not.
KeyParts ==
    {<<"C", "V", "E">>, <<"c", "v", "e">>, <<"C", "W", "E">>,
     <<"2", "0", "2", "3">>, <<"9", "9">>,
     <<"0", "0", "0", "1">>, <<"0", "0", "0", "0", "1">>, <<"1", "2", "3", "4", "5">>,
     <<"0", "0", "1">>, <<"A", "B", "C">>}

RECURSIVE JoinParts(_)
JoinParts(ps) ==
    IF Len(ps) = 1 THEN ps[1]
    ELSE ps[1] \o <<"-">> \o JoinParts(Tail(ps))

KeyInputs == {JoinParts(ps) : ps \in UNION {[1..k -> KeyParts] : k \in 1..MaxKeyParts}}

\* A call is_valid_cve_id(cve_id) on the candidate key.
IsValidCveId ==
    /\ keyValid = NoneOpt
    /\ keyValid' = Some(is_valid_cve_chars(keyText))
    /\ UNCHANGED <<keyText, migVars, tableVars, csvVars, enrichVars, pageVars, schedVars, viewVars>>

KeyInit ==
    /\ MigIdle
    /\ TableEmpty
    /\ CsvIdle
    /\ EnrichIdle
    /\ PageIdle
    /\ keyText \in KeyInputs
    /\ keyValid = NoneOpt
    /\ SchedIdle
    /\ ViewIdle

KeyNext == IsValidCveId

SpecKey == KeyInit /\ [][KeyNext]_vars

\* C16: is_valid_cve_id returns true exactly for the keys of the business key
\* format: the prefix CVE, a year of exactly four digits and a sequence of at
\* least four digits, joined by '-'.
C16_ValidExactlyForKeyFormat ==
    keyValid # NoneOpt => (keyValid = Some(TRUE) <=> KeyFormat(keyText))

\* The sequence of a key of the business key format.
SequencePart(cs) == SubSeq(cs, 10, Len(cs))

\* C17: a key of the format whose sequence has more than four digits is
\* rejected when the sequence is zero-padded, and accepted when it has no
\* leading zero.
C17_ZeroPaddedSequenceRejected ==
    (keyValid # NoneOpt /\ KeyFormat(keyText) /\ Len(SequencePart(keyText)) > 4) =>
        (keyValid = Some(TRUE) <=> SequencePart(keyText)[1] # "0")

(***************************************************************************)
(* Enrichment pipeline (nvd_api.rs)                                        *)
(***************************************************************************)

\* Rows of a table in vulnerability_id order (the order of a table scan).
RECURSIVE RowsById(_)
RowsById(tbl) ==
    IF tbl = {} THEN <<>>
    ELSE LET r == CHOOSE x \in tbl : \A y \in tbl : x.vulnerability_id <= y.vulnerability_id
         IN  <<r>> \o RowsById(tbl \ {r})

Take(s, n) == IF Len(s) <= n THEN s ELSE SubSeq(s, 1, n)

\* Option<String> column that is NULL or ''.
NullOrEmpty(o) == o = NoneOpt \/ o = Some("")

\* The WHERE clause of batch_update_vulnerabilities (SQLite compares text
\* byte by byte: 'Unknown' is not 'UNKNOWN').
SqlSelects(r) ==
    \/ NullOrEmpty(r.description)
    \/ r.severity = "UNKNOWN"
    \/ r.published_date = NoneOpt
    \/ NullOrEmpty(r.impact)
    \/ NullOrEmpty(r.mitigation)

\* The Vulnerability struct the query_map closure builds from a row.
VulnOfRow(r) ==
    [vulnerability_id |-> Some(r.vulnerability_id),
     cve_id         |-> r.cve_id,
     description    |-> r.description,
     severity       |-> r.severity,
     impact         |-> r.impact,
     mitigation     |-> r.mitigation,
     published_date |-> IF r.published_date = NoneOpt THEN NoneOpt
                        ELSE parse_ymd(r.published_date[1])]

\* SELECT ... WHERE ... LIMIT batch_size
SelectBatch(tbl, batch_size) ==
    LET rows == SelectSeq(RowsById(tbl), SqlSelects)
    IN  Take([i \in 1..Len(rows) |-> VulnOfRow(rows[i])], batch_size)

\* map_or(true, |d| d.trim().is_empty())
BlankOpt(o) == IF o = NoneOpt THEN TRUE ELSE trim(o[1]) = ""

SeverityUnknown(sev) == to_uppercase(sev) = "UNKNOWN"

\* needs_update of update_fields_if_unknown
needs_update(vuln) ==
    \/ BlankOpt(vuln.description)
    \/ SeverityUnknown(vuln.severity)
    \/ vuln.published_date = NoneOpt
    \/ BlankOpt(vuln.impact)
    \/ BlankOpt(vuln.mitigation)

\* ---- what the external source can answer
EsThenEn == <<[lang |-> "es", value |-> "dx"], [lang |-> "en", value |-> "d1"]>>
BlankEn == <<[lang |-> "en", value |-> " "]>>
SecondHasSeverity == Some(<<[severity |-> NoneOpt], [severity |-> Some("High")]>>)
Critical == Some(<<[severity |-> Some("CRITICAL")]>>)

\* The cve records of the source: complete ones, one with a blank description,
\* ones that lack the description, the metrics or a parsable date, and one whose
\* published text is shorter than ten bytes.
NvdCves ==
    {[descriptions |-> EsThenEn, metrics |-> SecondHasSeverity,
      published |-> "2021-02-02T10:00:00.000"],
     [descriptions |-> BlankEn, metrics |-> Critical,
      published |-> "2021-02-02T10:00:00.000"],
     [descriptions |-> EsThenEn, metrics |-> NoneOpt, published |-> "not-a-date"],
     [descriptions |-> <<>>, metrics |-> NoneOpt, published |-> "not-a-date"],
     [descriptions |-> <<>>, metrics |-> Critical, published |-> "2021"]}

\* NvdApiResponse.vulnerabilities: empty, or one record.
NvdResponses == {<<>>} \cup {<<c>> : c \in NvdCves}

\* How fetch_nvd_data ends: the request is not sent, a non-success status,
\* an unparsable body, or a parsed response.
FetchOutcomes == {"send_failed", "bad_status", "parse_failed", "ok"}

\* &published[..10]: NoneOpt when the string is shorter (the slice panics).
Prefix10(s) ==
    CASE s = "2021-02-02T10:00:00.000" -> Some("2021-02-02")
      [] s = "not-a-date" -> Some("not-a-date")
      [] OTHER -> NoneOpt

\* get_english_description
get_english_description(descriptions) ==
    IF \E i \in 1..Len(descriptions) : descriptions[i].lang = "en"
    THEN Some(descriptions[CHOOSE i \in 1..Len(descriptions) :
                  /\ descriptions[i].lang = "en"
                  /\ \A j \in 1..(i - 1) : descriptions[j].lang # "en"].value)
    ELSE NoneOpt

\* get_severity: the first metric that has a severity, upper-cased.
get_severity(metrics) ==
    IF metrics = NoneOpt THEN NoneOpt
    ELSE LET ms == metrics[1]
         IN  IF \E i \in 1..Len(ms) : ms[i].severity # NoneOpt
             THEN Some(to_uppercase(ms[CHOOSE i \in 1..Len(ms) :
                           /\ ms[i].severity # NoneOpt
                           /\ \A j \in 1..(i - 1) : ms[j].severity = NoneOpt].severity[1]))
             ELSE NoneOpt

\* ---- the merge of update_fields_if_unknown (lines 131-148)
\* A merge that takes the source's description whatever the row holds.
DescriptionFromSource(vuln, cve) == get_english_description(cve.descriptions)

MergedDescription(vuln, cve) ==
    IF BlankOpt(vuln.description)
    THEN get_english_description(cve.descriptions)
    ELSE vuln.description

MergedSeverity(vuln, cve) ==
    IF SeverityUnknown(vuln.severity)
    THEN (IF get_severity(cve.metrics) = NoneOpt THEN vuln.severity
          ELSE get_severity(cve.metrics)[1])
    ELSE vuln.severity

\* Whether the slice &published[..10] is taken and panics.
DatePanics(vuln, cve) ==
    vuln.published_date = NoneOpt /\ Prefix10(cve.published) = NoneOpt

MergedDate(vuln, cve) ==
    IF vuln.published_date = NoneOpt
    THEN parse_ymd(Prefix10(cve.published)[1])
    ELSE vuln.published_date

\* The columns of the dynamic UPDATE (update_parts) with their parameters.
UpdateParts(description, severity, published_date) ==
    (IF IsSome(description) THEN {<<"description", description>>} ELSE {})
    \cup (IF to_uppercase(severity) # "UNKNOWN"
          THEN {<<"severity", severity>>} ELSE {})
    \cup (IF IsSome(published_date)
          THEN {<<"published_date", Some(date_to_string(published_date[1]))>>}
          ELSE {})

\* UPDATE vulnerabilities SET <parts> WHERE cve_id = ?
ApplyUpdate(tbl, cve_id, parts) ==
    {IF r.cve_id # cve_id THEN r
     ELSE [f \in DOMAIN r |->
              IF \E p \in parts : p[1] = f
              THEN (CHOOSE p \in parts : p[1] = f)[2]
              ELSE r[f]] : r \in tbl}

\* update_fields_if_unknown(vuln) against the table, for one way the fetch and
\* the database call can end.
\*   result: "true" | "false" | "err" | "panic";  fetched: a request was made;
\*   slept: REQUEST_DELAY elapsed after it;  cols: the columns the UPDATE set.
update_fields_if_unknown(tbl, vuln, outcome, resp, dbFail) ==
    LET r(res, f, s, cols, t) ==
            [result |-> res, fetched |-> f, slept |-> s, cols |-> cols, vulns |-> t]
    IN  IF ~needs_update(vuln) THEN r("false", FALSE, FALSE, {}, tbl)
        ELSE IF outcome # "ok" THEN r("err", TRUE, FALSE, {}, tbl)
        ELSE IF resp = <<>> THEN r("false", TRUE, TRUE, {}, tbl)
        ELSE IF DatePanics(vuln, resp[1]) THEN r("panic", TRUE, TRUE, {}, tbl)
        ELSE LET parts == UpdateParts(MergedDescription(vuln, resp[1]),
                                      MergedSeverity(vuln, resp[1]),
                                      MergedDate(vuln, resp[1]))
             IN  IF dbFail THEN r("err", TRUE, TRUE, {}, tbl)
                 ELSE IF parts = {} THEN r("true", TRUE, TRUE, {}, tbl)
                 ELSE r("true", TRUE, TRUE, {p[1] : p \in parts},
                        ApplyUpdate(tbl, vuln.cve_id, parts))

\* Most runs of batch_update_vulnerabilities, and the largest batch_size.
MaxRuns == 2
MaxBatch == 2

RowWithKey(tbl, k) == CHOOSE r \in tbl : r.cve_id = k
HasKey(tbl, k) == \E r \in tbl : r.cve_id = k

\* A field holds a known value.
DescKnown(r) == ~BlankOpt(r.description)
SevKnown(r) == ~SeverityUnknown(r.severity)
DateKnown(r) == r.published_date # NoneOpt

\* The records a run filled: it wrote them, one of description, severity and
\* published date was unknown when it started, and all three are known now.
FilledBy(start, tbl, written) ==
    {k \in written :
        /\ HasKey(start, k) /\ HasKey(tbl, k)
        /\ LET r0 == RowWithKey(start, k)
               r1 == RowWithKey(tbl, k)
           IN  /\ ~(DescKnown(r0) /\ SevKnown(r0) /\ DateKnown(r0))
               /\ DescKnown(r1) /\ SevKnown(r1) /\ DateKnown(r1)}

\* batch_update_vulnerabilities up to its first await inside the loop: the
\* SELECT of the batch (and the return, when the batch is empty).  filled
\* records what the run before this one filled.
BatchSelect(batch_size, dbFail) ==
    /\ epc = "idle"
    /\ importResult.status # "none"
    /\ runNo < MaxRuns
    /\ runNo' = runNo + 1
    /\ runStart' = vulns
    /\ wrote' = {}
    /\ updated_count' = 0
    /\ lastRec' = NoRec
    /\ sleptSinceFetch' = TRUE
    /\ filled' = FilledBy(runStart, vulns, wrote)
    /\ IF dbFail
       THEN /\ batch' = <<>>
            /\ selection' = NoSelection
            /\ returned' = [status |-> "err", count |-> 0]
            /\ epc' = "idle"
       ELSE LET b == SelectBatch(vulns, batch_size)
            IN  /\ batch' = b
                /\ selection' = [limit |-> batch_size,
                                 cves |-> [i \in 1..Len(b) |-> b[i].cve_id]]
                /\ returned' = IF b = <<>> THEN [status |-> "ok", count |-> 0]
                               ELSE NoReturn
                /\ epc' = IF b = <<>> THEN "idle" ELSE "running"
    /\ UNCHANGED <<migVars, tableVars, csvVars, nvdSeen, nvdChanged, pageVars, keyVars, schedVars, viewVars>>

\* One iteration of the loop of batch_update_vulnerabilities:
\* update_fields_if_unknown on the next record of the batch, the count, and the
\* return after the last record.
UpdateFieldsIfUnknown(outcome, resp, dbFail) ==
    /\ epc = "running"
    /\ batch # <<>>
    /\ needs_update(Head(batch)) \/ (outcome = "ok" /\ resp = <<>> /\ ~dbFail)
    /\ outcome = "ok" \/ (resp = <<>> /\ ~dbFail)
    /\ LET vuln  == Head(batch)
           u     == update_fields_if_unknown(vulns, vuln, outcome, resp, dbFail)
           count == IF u.result = "true" THEN updated_count + 1 ELSE updated_count
           w     == IF u.cols # {} THEN wrote \cup {vuln.cve_id} ELSE wrote
           seen  == u.fetched /\ outcome = "ok"
       IN  /\ vulns' = u.vulns
           /\ updated_count' = count
           /\ wrote' = w
           /\ lastRec' = [cve_id |-> vuln.cve_id, result |-> u.result,
                          fetched |-> u.fetched,
                          delayedBefore |-> IF u.fetched THEN sleptSinceFetch ELSE TRUE,
                          cols |-> u.cols]
           /\ sleptSinceFetch' = IF u.fetched THEN u.slept ELSE sleptSinceFetch
           /\ nvdSeen' = IF seen THEN [nvdSeen EXCEPT ![vuln.cve_id] = Some(resp)]
                         ELSE nvdSeen
           /\ nvdChanged' = IF seen /\ nvdSeen[vuln.cve_id] \notin {NoneOpt, Some(resp)}
                            THEN nvdChanged \cup {vuln.cve_id} ELSE nvdChanged
           /\ batch' = Tail(batch)
           /\ epc' = IF u.result = "panic" THEN "panicked"
                     ELSE IF Tail(batch) = <<>> THEN "idle" ELSE "running"
           /\ returned' = IF u.result # "panic" /\ Tail(batch) = <<>>
                          THEN [status |-> "ok", count |-> count] ELSE NoReturn
    /\ UNCHANGED <<migVars, autoinc, csvVars, runNo, runStart, selection, filled,
                   pageVars, keyVars, schedVars, viewVars>>

\* ---- the feeds imported before enrichment: a header and at most one row per key
Key1Rows ==
    {<<"CVE-2023-0001", "Entry", "d0", "", "", "i", "m">>,
     <<"CVE-2023-0001", "Other", "d0", "", "2020-01-01", "i", "m">>}

Key2Rows ==
    {<<"CVE-2023-0002", "Other", "", "", "", "i", "">>,
     <<"CVE-2023-0002", "Entry", "d0", "", "2020-01-01", "", "">>}

EnrichFeeds ==
    {<<expected_headers>>}
    \cup {<<expected_headers, a>> : a \in Key1Rows \cup Key2Rows}
    \cup {<<expected_headers, a, b>> : a \in Key1Rows, b \in Key2Rows}

EnrichInit ==
    /\ MigIdle
    /\ TableEmpty
    /\ feed \in EnrichFeeds
    /\ importResult = NoImport
    /\ imports = 0
    /\ afterFirst = NoFirst
    /\ EnrichIdle
    /\ PageIdle
    /\ KeyIdle
    /\ SchedIdle
    /\ ViewIdle

EnrichNext ==
    \/ \E failAt \in 0..1 : imports = 0 /\ ImportVulnerabilitiesFromCsv(failAt, "commit")
    \/ \E n \in 1..MaxBatch, dbFail \in BOOLEAN : BatchSelect(n, dbFail)
    \/ \E o \in FetchOutcomes, resp \in NvdResponses, dbFail \in BOOLEAN :
          UpdateFieldsIfUnknown(o, resp, dbFail)

SpecEnrich == EnrichInit /\ [][EnrichNext]_vars

\* ---- enrichment while the importer writes the same table
\* The scheduler task of App::run and the import started from the window share
\* the pool: an import can commit between the SELECT of a batch and the UPDATE
\* of any of its records.

\* The row imported before the batch, and the rows the later import brings for
\* the same key.
RaceFirstRows ==
    {<<"CVE-2023-0001", "Other", "", "", "", "i", "m">>,
     <<"CVE-2023-0001", "Other", "d0", "", "", "i", "m">>}

RaceLaterRows ==
    {<<"CVE-2023-0001", "Entry", "d0", "", "2020-01-01", "i", "m">>,
     <<"CVE-2023-0001", "Entry", "d1", "", "2020-01-01", "i", "m">>}

\* import_vulnerabilities_from_csv on another file while a batch is running.
ImportWhileEnriching(row) ==
    /\ epc = "running"
    /\ imports < MaxImports
    /\ feed' = <<expected_headers, row>>
    /\ \E r \in {ImportFeed(<<expected_headers, row>>, vulns, autoinc, 0, "commit")} :
           /\ importResult' = [status |-> r.status, header_line |-> r.header_line,
                               headers |-> r.headers, processed |-> r.processed,
                               count |-> r.count, failed_batch |-> r.failed_batch]
           /\ vulns' = r.vulns
           /\ autoinc' = r.autoinc
    /\ imports' = imports + 1
    /\ UNCHANGED <<afterFirst, migVars, enrichVars, pageVars, keyVars, schedVars, viewVars>>

RaceInit ==
    /\ MigIdle
    /\ TableEmpty
    /\ feed \in {<<expected_headers, a>> : a \in RaceFirstRows}
    /\ importResult = NoImport
    /\ imports = 0
    /\ afterFirst = NoFirst
    /\ EnrichIdle
    /\ PageIdle
    /\ KeyIdle
    /\ SchedIdle
    /\ ViewIdle

RaceNext ==
    \/ imports = 0 /\ ImportVulnerabilitiesFromCsv(0, "commit")
    \/ \E n \in 1..MaxBatch, dbFail \in BOOLEAN : BatchSelect(n, dbFail)
    \/ \E row \in RaceLaterRows : ImportWhileEnriching(row)
    \/ \E o \in FetchOutcomes, resp \in NvdResponses, dbFail \in BOOLEAN :
          UpdateFieldsIfUnknown(o, resp, dbFail)

SpecRace == RaceInit /\ [][RaceNext]_vars

(***************************************************************************)
(* Properties of the enrichment pipeline                                   *)
(***************************************************************************)

CanonicalSeverities == {"High", "Medium", "Low", "Unknown"}

\* C3: after any sequence of import and enrichment runs every row's severity is
\* one of High, Medium, Low, Unknown, in exactly these spellings.
C3_SeverityCanonical ==
    \A r \in vulns : r.severity \in CanonicalSeverities

\* The fields of r0 selected by the three tests are the same in r1.
KeepsKnown(r0, r1, descKnown, sevKnown, dateKnown) ==
    /\ descKnown => r1.description = r0.description
    /\ sevKnown => r1.severity = r0.severity
    /\ dateKnown => r1.published_date = r0.published_date

\* C4 (as stated): a run changes no description that was non-empty, no severity
\* other than Unknown and no non-null published date of the rows it started with.
C4_NonEmptyFieldsKept ==
    \A r0 \in runStart : \A r1 \in vulns :
        r1.cve_id = r0.cve_id =>
            KeepsKnown(r0, r1, ~NullOrEmpty(r0.description),
                       SevKnown(r0), DateKnown(r0))

\* C4 (amended): a run changes no description that was not blank (null, empty or
\* only white space), no severity other than Unknown and no non-null published
\* date of the rows it started with, whatever the source answers.
C4_KnownFieldsKept ==
    \A r0 \in runStart : \A r1 \in vulns :
        r1.cve_id = r0.cve_id =>
            KeepsKnown(r0, r1, DescKnown(r0), SevKnown(r0), DateKnown(r0))

\* C4 witness: the run wrote a row that started with a known description and
\* left it different from what it was.
C4_WroteRowWithKnownField ==
    \E r0 \in runStart :
        /\ DescKnown(r0)
        /\ r0.cve_id \in wrote
        /\ r0 \notin vulns

\* The selection rule of the specification: severity is the importer's sentinel.
Qualifies(r) ==
    \/ NullOrEmpty(r.description)
    \/ r.severity = parse_severity("")
    \/ r.published_date = NoneOpt
    \/ NullOrEmpty(r.impact)
    \/ NullOrEmpty(r.mitigation)

\* C5: the batch is the first batch_size rows that qualify (null/empty
\* description, severity Unknown as the importer stores it, null date, null/empty
\* impact or mitigation), and the selection agrees with needs_update on every row.
C5_SelectsQualifyingRows ==
    selection.limit > 0 =>
        /\ LET rows == SelectSeq(RowsById(runStart), Qualifies)
           IN  selection.cves = Take([i \in 1..Len(rows) |-> rows[i].cve_id],
                                     selection.limit)
        /\ \A r \in runStart : SqlSelects(r) <=> needs_update(VulnOfRow(r))

\* C6: every fetch of a batch that follows another fetch of the batch is preceded
\* by REQUEST_DELAY, however the earlier fetch ended.
C6_DelayBetweenFetches ==
    lastRec.fetched => lastRec.delayedBefore

\* C7: in the run after the one that filled a record's description, severity and
\* published date, with the source answering as before, no UPDATE is issued for
\* the record and its row stays as the first run left it.
C7_SecondRunWritesNothing ==
    \A k \in filled :
        (runNo >= 2 /\ k \notin nvdChanged) =>
            /\ k \notin wrote
            /\ \A r0 \in runStart : r0.cve_id = k => r0 \in vulns

\* C8: the count batch_update_vulnerabilities returns is the number of records of
\* the batch for which at least one column was written.
C8_CountsWrittenRecords ==
    returned.status = "ok" => returned.count = Cardinality(wrote)

\* C23: the UPDATE issued for a record names only columns that were unknown in
\* the record when the batch selected it; a column that held a known value is
\* not in the statement (so a record with no unknown column among description,
\* severity and published date gets no UPDATE).
C23_UpdateNamesOnlyUnknownColumns ==
    \A r0 \in runStart :
        r0.cve_id = lastRec.cve_id =>
            /\ "description" \in lastRec.cols => ~DescKnown(r0)
            /\ "severity" \in lastRec.cols => ~SevKnown(r0)
            /\ "published_date" \in lastRec.cols => ~DateKnown(r0)

\* C24: the UPDATE of a record leaves every field that is known in the row at
\* the time of the write as it is, also when another writer filled the field
\* after the batch selected the record.
C24_WriteKeepsFieldsKnownAtWrite ==
    [][(epc = "running" /\ batch # <<>> /\ batch' = Tail(batch)) =>
           \A r0 \in vulns : \A r1 \in vulns' :
               (r0.cve_id = Head(batch).cve_id /\ r1.cve_id = r0.cve_id) =>
                   KeepsKnown(r0, r1, DescKnown(r0), SevKnown(r0), DateKnown(r0))]_vars

(***************************************************************************)
(* Vulnerability view: the paginated query (gui/app.rs)                    *)
(***************************************************************************)

DISPLAY_PAGE_SIZE == 15

\* The byte of a character (SQLite's default BINARY collation compares bytes).
Ascii(c) ==
    CASE c = " " -> 32 [] c = "-" -> 45 [] c = "?" -> 63
      [] c = "0" -> 48 [] c = "1" -> 49 [] c = "2" -> 50 [] c = "3" -> 51
      [] c = "4" -> 52 [] c = "5" -> 53 [] c = "6" -> 54 [] c = "7" -> 55
      [] c = "8" -> 56 [] c = "9" -> 57
      [] c = "A" -> 65 [] c = "B" -> 66 [] c = "C" -> 67 [] c = "D" -> 68
      [] c = "E" -> 69 [] c = "I" -> 73 [] c = "L" -> 76 [] c = "N" -> 78
      [] c = "V" -> 86 [] c = "W" -> 87
      [] c = "c" -> 99 [] c = "d" -> 100 [] c = "e" -> 101 [] c = "v" -> 118
      [] OTHER -> 63

Bytes(s) == [i \in 1..Len(Chars(s)) |-> Ascii(Chars(s)[i])]

\* a < b for two sort keys: sequences of numbers, compared from the left.
RECURSIVE SeqLess(_, _)
SeqLess(a, b) ==
    IF b = <<>> THEN FALSE
    ELSE IF a = <<>> THEN TRUE
    ELSE IF a[1] # b[1] THEN a[1] < b[1]
    ELSE SeqLess(Tail(a), Tail(b))

\* text LIKE '%q%': q occurs in text, ASCII letters compared without case.
Like(text, q) ==
    LET hay    == Chars(text)
        needle == Chars(q)
    IN  \E i \in 0..(Len(hay) - Len(needle)) :
            \A j \in 1..Len(needle) : LowerChar(hay[i + j]) = LowerChar(needle[j])

SortFields == {"CVE", "Severity", "Date", "None"}
FilterSeverities == {"All", "High", "Medium", "Low"}

\* The WHERE clause load_vulnerabilities builds (a LIKE on NULL is not true).
WhereClauses(r, search_query, filter_severity) ==
    /\ search_query # "" =>
           \/ Like(r.cve_id, search_query)
           \/ (IF r.description = NoneOpt THEN FALSE
               ELSE Like(r.description[1], search_query))
    /\ filter_severity # "All" =>
           to_lowercase(r.severity) = to_lowercase(filter_severity)

\* CASE severity WHEN 'HIGH' THEN 1 WHEN 'MEDIUM' THEN 2 WHEN 'LOW' THEN 3 ELSE 4 END
SeverityCase(severity) ==
    CASE severity = "HIGH" -> 1
      [] severity = "MEDIUM" -> 2
      [] severity = "LOW" -> 3
      [] OTHER -> 4

\* The ORDER BY expression of a row.
OrderKey(r, sort_field) ==
    CASE sort_field = "CVE" -> Bytes(r.cve_id)
      [] sort_field = "Severity" -> <<SeverityCase(r.severity)>>
      [] sort_field = "Date" ->
            Bytes(IF r.published_date = NoneOpt THEN "9999-12-31"
                  ELSE r.published_date[1])
      [] OTHER -> <<r.vulnerability_id>>

\* Every arrangement of a set of rows.
Perms(S) ==
    {p \in [1..Cardinality(S) -> S] :
        \A i, j \in 1..Cardinality(S) : i # j => p[i] # p[j]}

\* a comes before b in ORDER BY <key> ASC/DESC.  The statement names no second
\* key: the engine sorts the rows of the table scan and leaves rows with equal
\* keys in scan order, which is vulnerability_id order, in both directions.
ComesBefore(a, b, sort_field, sort_ascending) ==
    LET ka == OrderKey(a, sort_field)
        kb == OrderKey(b, sort_field)
    IN  IF ka = kb THEN a.vulnerability_id < b.vulnerability_id
        ELSE IF sort_ascending THEN SeqLess(ka, kb) ELSE SeqLess(kb, ka)

\* The rows of S in the order of ORDER BY.
OrderBy(S, sort_field, sort_ascending) ==
    CHOOSE p \in Perms(S) :
        \A i, j \in 1..Len(p) :
            i < j => ComesBefore(p[i], p[j], sort_field, sort_ascending)

\* LIMIT n OFFSET off
LimitOffset(s, n, off) ==
    IF off >= Len(s) THEN <<>>
    ELSE SubSeq(s, off + 1, IF off + n < Len(s) THEN off + n ELSE Len(s))

\* What load_vulnerabilities returns.
load_vulnerabilities(tbl, search_query, page, page_size, sort_field, sort_ascending, filter_severity) ==
    LET matching    == {r \in tbl : WhereClauses(r, search_query, filter_severity)}
        total_count == Cardinality(matching)
        rows        == LimitOffset(OrderBy(matching, sort_field, sort_ascending),
                                   page_size, page * page_size)
    IN  [status |-> "ok", search_query |-> search_query, page |-> page,
         page_size |-> page_size, sort_field |-> sort_field,
         sort_ascending |-> sort_ascending, filter_severity |-> filter_severity,
         total_count |-> total_count,
         items |-> [i \in 1..Len(rows) |-> VulnOfRow(rows[i])],
         total_pages |-> (total_count + DISPLAY_PAGE_SIZE - 1) \div DISPLAY_PAGE_SIZE]

\* The largest page number and page size a call is made with.
MaxPage == 2
MaxPageSize == 2

SearchQueries == {"", "cve-2023-0001"}

\* One call of load_vulnerabilities; on a database error it returns Err.  The
\* result depends on the table and the inputs only, so a behaviour follows one
\* call.
LoadVulnerabilities(search_query, page, page_size, sort_field, sort_ascending, filter_severity, dbFail) ==
    /\ loaded.status = "none"
    /\ IF dbFail
       THEN loaded' = [NoLoad EXCEPT !.status = "err"]
       ELSE loaded' = load_vulnerabilities(vulns, search_query, page, page_size,
                          sort_field, sort_ascending, filter_severity)
    /\ UNCHANGED <<migVars, tableVars, csvVars, enrichVars, keyVars, schedVars, viewVars>>

\* Rows as the importer and the enrichment leave them.
PageRows ==
    {[vulnerability_id |-> 1, cve_id |-> "CVE-2023-0001", description |-> Some("d0"),
      severity |-> "High", impact |-> Some("i"), mitigation |-> Some("m"),
      published_date |-> Some("2021-02-02")],
     [vulnerability_id |-> 2, cve_id |-> "CVE-2023-0002", description |-> NoneOpt,
      severity |-> "Low", impact |-> Some("i"), mitigation |-> NoneOpt,
      published_date |-> NoneOpt],
     [vulnerability_id |-> 3, cve_id |-> "CVE-2023-12345", description |-> Some("d1"),
      severity |-> "HIGH", impact |-> NoneOpt, mitigation |-> Some("m"),
      published_date |-> Some("2020-01-01")],
     [vulnerability_id |-> 4, cve_id |-> "CVE-1999-00001", description |-> Some("d0"),
      severity |-> "Medium", impact |-> NoneOpt, mitigation |-> NoneOpt,
      published_date |-> Some("2021-02-02")]}

PageInit ==
    /\ MigIdle
    /\ CsvIdle
    /\ EnrichIdle
    /\ PageIdle
    /\ KeyIdle
    /\ SchedIdle
    /\ ViewIdle
    /\ vulns \in SUBSET PageRows
    /\ autoinc = Cardinality(PageRows)

PageNext ==
    \E search_query \in SearchQueries, page \in 0..MaxPage, page_size \in 1..MaxPageSize,
       sort_field \in SortFields, sort_ascending \in BOOLEAN,
       filter_severity \in FilterSeverities, dbFail \in BOOLEAN :
        LoadVulnerabilities(search_query, page, page_size, sort_field,
                            sort_ascending, filter_severity, dbFail)

SpecPage == PageInit /\ [][PageNext]_vars

\* ceil(n / d)
Ceil(n, d) == (n + d - 1) \div d

\* C10: the paginated query returns total_pages = ceil(total matching count /
\* page_size) for the page_size it was called with; no matching row gives an
\* empty list and total_pages = 0.
C10_TotalPagesOfPageSize ==
    loaded.status = "ok" =>
        /\ loaded.total_pages = Ceil(loaded.total_count, loaded.page_size)
        /\ loaded.total_count = 0 => (loaded.items = <<>> /\ loaded.total_pages = 0)

\* The tier of a canonical severity.
Tier(severity) ==
    CASE severity = "High" -> 1
      [] severity = "Medium" -> 2
      [] severity = "Low" -> 3
      [] OTHER -> 4

\* C11: sorted by severity, in either direction, the rows of a page whose
\* severity is in the importer's spelling come High first, then Medium, then Low,
\* then Unknown.
C11_SeverityTierOrder ==
    (loaded.status = "ok" /\ loaded.sort_field = "Severity") =>
        \A i, j \in 1..Len(loaded.items) :
            (/\ i < j
             /\ loaded.items[i].severity \in CanonicalSeverities
             /\ loaded.items[j].severity \in CanonicalSeverities)
                => Tier(loaded.items[i].severity) <= Tier(loaded.items[j].severity)

\* The vulnerability_ids page p holds for the inputs of the last call.
PageIds(p) ==
    LET r == load_vulnerabilities(vulns, loaded.search_query, p, loaded.page_size,
                 loaded.sort_field, loaded.sort_ascending, loaded.filter_severity)
    IN  {r.items[i].vulnerability_id[1] : i \in 1..Len(r.items)}

\* C12: for the table and the inputs of a call, pages 0..total_pages-1 are
\* pairwise disjoint and together hold every matching row.
C12_PagesPartitionMatchingRows ==
    loaded.status = "ok" =>
        /\ \A p, q \in 0..(loaded.total_pages - 1) :
               p # q => PageIds(p) \cap PageIds(q) = {}
        /\ UNION {PageIds(p) : p \in 0..(loaded.total_pages - 1)}
               = {r.vulnerability_id : r \in {x \in vulns :
                     WhereClauses(x, loaded.search_query, loaded.filter_severity)}}

\* C27: sorted by date, ascending or descending, no row without a published date
\* comes before a row with one in the returned list.
C27_MissingDatesLast ==
    (loaded.status = "ok" /\ loaded.sort_field = "Date") =>
        \A i, j \in 1..Len(loaded.items) :
            i < j => ~(/\ loaded.items[i].published_date = NoneOpt
                       /\ loaded.items[j].published_date # NoneOpt)

(***************************************************************************)
(* gui::database::load_vulnerabilities (gui/database.rs): a page fetched   *)
(* by VulnerabilityRepository::search_vulnerabilities, then filtered by    *)
(* severity and sorted in memory.                                          *)
(***************************************************************************)

\* VulnerabilityRepository::search_vulnerabilities(query, page, page_size): the
\* rows that match the search text, in insertion order, LIMIT page_size OFFSET
\* page * page_size, and the number of pages of the matching rows.
search_vulnerabilities(tbl, query, page, page_size) ==
    LET matching == {r \in tbl : WhereClauses(r, query, "All")}
        rows     == LimitOffset(RowsById(matching), page_size, page * page_size)
    IN  [items       |-> [i \in 1..Len(rows) |-> VulnOfRow(rows[i])],
         total_count |-> Cardinality(matching),
         total_pages |-> (Cardinality(matching) + page_size - 1) \div page_size]

\* Vec::retain(|v| v.severity.to_lowercase() == severity)
RetainSeverity(vulnerabilities, filter_severity) ==
    IF filter_severity = "All" THEN vulnerabilities
    ELSE SelectSeq(vulnerabilities,
                   LAMBDA v : to_lowercase(v.severity) = to_lowercase(filter_severity))

\* String::cmp on the severities of the model: byte order.
SeverityBytes(severity) ==
    CASE severity = "HIGH" -> <<72, 73>>
      [] severity = "High" -> <<72, 105>>
      [] severity = "Low" -> <<76>>
      [] severity = "MEDIUM" -> <<77, 69>>
      [] severity = "Medium" -> <<77, 101>>
      [] severity = "Unknown" -> <<85>>
      [] OTHER -> <<63>>

\* The key the comparator of sort_by compares: cve_id and severity as strings,
\* published_date as Option<NaiveDate> (None is less than every Some).
SortByKey(v, sort_field) ==
    CASE sort_field = "CVE" -> Bytes(v.cve_id)
      [] sort_field = "Severity" -> SeverityBytes(v.severity)
      [] sort_field = "Date" ->
            (IF v.published_date = NoneOpt THEN <<0>> ELSE <<1>> \o v.published_date[1])
      [] OTHER -> <<>>

\* slice::sort_by with a.cmp(b) or b.cmp(a): a stable sort.
sort_by(vulnerabilities, sort_field, sort_ascending) ==
    IF sort_field = "None" THEN vulnerabilities
    ELSE LET n == Len(vulnerabilities)
             before(a, b) ==
                 LET ka == SortByKey(vulnerabilities[a], sort_field)
                     kb == SortByKey(vulnerabilities[b], sort_field)
                 IN  IF ka = kb THEN a < b
                     ELSE IF sort_ascending THEN SeqLess(ka, kb) ELSE SeqLess(kb, ka)
             p == CHOOSE q \in Perms(1..n) :
                      \A i, j \in 1..n : i < j => before(q[i], q[j])
         IN  [i \in 1..n |-> vulnerabilities[p[i]]]

\* What gui::database::load_vulnerabilities returns.
db_load_vulnerabilities(tbl, search_query, page, page_size, sort_field, sort_ascending, filter_severity) ==
    LET found == search_vulnerabilities(tbl, search_query, page, page_size)
    IN  [status |-> "ok", search_query |-> search_query, page |-> page,
         page_size |-> page_size, sort_field |-> sort_field,
         sort_ascending |-> sort_ascending, filter_severity |-> filter_severity,
         total_count |-> found.total_count,
         items |-> sort_by(RetainSeverity(found.items, filter_severity),
                           sort_field, sort_ascending),
         total_pages |-> found.total_pages]

\* One call of gui::database::load_vulnerabilities; when the repository call
\* fails it returns Err.
DbLoadVulnerabilities(search_query, page, page_size, sort_field, sort_ascending, filter_severity, dbFail) ==
    /\ loaded.status = "none"
    /\ IF dbFail
       THEN loaded' = [NoLoad EXCEPT !.status = "err"]
       ELSE loaded' = db_load_vulnerabilities(vulns, search_query, page, page_size,
                          sort_field, sort_ascending, filter_severity)
    /\ UNCHANGED <<migVars, tableVars, csvVars, enrichVars, keyVars, schedVars, viewVars>>

DbPageNext ==
    \E search_query \in SearchQueries, page \in 0..MaxPage, page_size \in 1..MaxPageSize,
       sort_field \in SortFields, sort_ascending \in BOOLEAN,
       filter_severity \in FilterSeverities, dbFail \in BOOLEAN :
        DbLoadVulnerabilities(search_query, page, page_size, sort_field,
                              sort_ascending, filter_severity, dbFail)

SpecDbPage == PageInit /\ [][DbPageNext]_vars

\* C28: the severity filter and the sort act on the whole matching set before
\* pagination: total_pages is the number of pages of the rows that match the
\* search text and the severity filter, and the list returned for page p is the
\* p-th page of these rows after sorting all of them.
C28_FilterAndSortBeforePagination ==
    loaded.status = "ok" =>
        LET matching == {r \in vulns :
                            WhereClauses(r, loaded.search_query, loaded.filter_severity)}
            rows     == RowsById(matching)
            sorted   == sort_by([i \in 1..Len(rows) |-> VulnOfRow(rows[i])],
                                loaded.sort_field, loaded.sort_ascending)
        IN  /\ loaded.total_pages = Ceil(Cardinality(matching), loaded.page_size)
            /\ loaded.items = LimitOffset(sorted, loaded.page_size,
                                          loaded.page * loaded.page_size)

(***************************************************************************)
(* The vulnerability view (gui/app.rs): VulnerabilityApp and its update.   *)
(* A load command runs load_vulnerabilities on the runtime and comes back  *)
(* as the message VulnerabilitiesLoaded; commands in flight complete in    *)
(* any order.  The table does not change while the window is open, so the  *)
(* rows a command returns are given by their positions in the result of    *)
(* its query: the list holds chunks [from, from + len) of such results.    *)
(***************************************************************************)

LOAD_PAGE_SIZE == 324607

\* Most load commands performed while the window is open.
MaxCommands == 3

\* The tables the view is opened on: the number of rows, and of High rows.
ViewTables ==
    {[rows |-> 0, high |-> 0],
     [rows |-> 16, high |-> 1],
     [rows |-> LOAD_PAGE_SIZE + 16, high |-> 16]}

\* The pages the model visits are at most this far from the first or the last
\* page.
MaxPageDistance == 2

ViewSortFields == {"None", "CVE"}
ViewFilters == {"All", "High"}

Min(a, b) == IF a < b THEN a ELSE b

\* SELECT COUNT(*) with the WHERE clause of load_vulnerabilities: the search
\* text of the model matches one key, the key of a High row when there is one.
MatchCount(t, query, filter) ==
    LET n == IF filter = "All" THEN t.rows ELSE IF filter = "High" THEN t.high ELSE 0
    IN  IF query = "" THEN n ELSE Min(n, 1)

\* load_vulnerabilities for a command: the positions LIMIT page_size OFFSET
\* page * page_size leaves of the result, and total_pages.
LoadResult(t, cmd) ==
    LET total_count == MatchCount(t, cmd.search_query, cmd.filter_severity)
        from        == cmd.page * cmd.page_size
    IN  [chunk |-> [cmd |-> cmd.id, reset |-> cmd.reset,
                    search_query |-> cmd.search_query, sort_field |-> cmd.sort_field,
                    sort_ascending |-> cmd.sort_ascending,
                    filter_severity |-> cmd.filter_severity,
                    from |-> from,
                    len |-> IF from >= total_count THEN 0
                            ELSE Min(cmd.page_size, total_count - from)],
         total_pages |-> (total_count + DISPLAY_PAGE_SIZE - 1) \div DISPLAY_PAGE_SIZE]

\* vulnerabilities.len()
RECURSIVE ListLen(_)
ListLen(chunks) == IF chunks = <<>> THEN 0 ELSE Head(chunks).len + ListLen(Tail(chunks))

\* Command::perform(load_vulnerabilities(pool, query, page, LOAD_PAGE_SIZE, ...)).
LoadCommand(a, id, reset, page) ==
    [id |-> id, reset |-> reset, page |-> page, page_size |-> LOAD_PAGE_SIZE,
     search_query |-> a.search_query, sort_field |-> a.sort_field,
     sort_ascending |-> a.sort_ascending, filter_severity |-> a.filter_severity]

\* update_displayed_vulnerabilities: the slice vulnerabilities[start..end]; it
\* panics when start > end.
update_displayed_vulnerabilities(a) ==
    LET start == a.current_page * DISPLAY_PAGE_SIZE
        end   == Min(start + DISPLAY_PAGE_SIZE, ListLen(a.vulnerabilities))
    IN  IF start > end THEN [a EXCEPT !.panicked = TRUE]
        ELSE [a EXCEPT !.displayed = <<start, end>>]

\* VulnerabilityApp::new: the fields and the first load command.
ViewInit ==
    /\ MigIdle
    /\ TableEmpty
    /\ CsvIdle
    /\ EnrichIdle
    /\ PageIdle
    /\ KeyIdle
    /\ SchedIdle
    /\ viewTable \in ViewTables
    /\ app = [open |-> TRUE, panicked |-> FALSE, vulnerabilities |-> <<>>,
              displayed |-> <<0, 0>>, error_message |-> FALSE, search_query |-> "",
              current_page |-> 0, total_pages |-> 0, loading |-> TRUE,
              sort_field |-> "None", sort_ascending |-> TRUE,
              filter_severity |-> "All", last_loaded_page |-> 0]
    /\ issued = 1
    /\ latestReset = 1
    /\ inflight = {LoadCommand(app, 1, 1, 0)}

\* The window takes messages until update panics.
Running == app.open /\ ~app.panicked

\* Message::VulnerabilitiesLoaded(result) for a command in flight.
VulnerabilitiesLoaded(cmd, ok) ==
    /\ Running
    /\ cmd \in inflight
    /\ inflight' = inflight \ {cmd}
    /\ IF ok
       THEN \E r \in {LoadResult(viewTable, cmd)} :
               app' = update_displayed_vulnerabilities(
                          [app EXCEPT !.loading = FALSE,
                                      !.vulnerabilities =
                                          IF app.last_loaded_page > 0
                                          THEN Append(app.vulnerabilities, r.chunk)
                                          ELSE <<r.chunk>>,
                                      !.last_loaded_page = app.last_loaded_page + 1,
                                      !.total_pages = r.total_pages,
                                      !.error_message = FALSE])
       ELSE app' = [app EXCEPT !.loading = FALSE, !.error_message = TRUE]
    /\ UNCHANGED <<issued, latestReset, viewTable>>
    /\ UNCHANGED <<migVars, tableVars, csvVars, enrichVars, pageVars, keyVars, schedVars>>

\* Message::SearchQueryChanged(query)
SearchQueryChanged(query) ==
    /\ Running
    /\ app' = [app EXCEPT !.search_query = query]
    /\ UNCHANGED <<inflight, issued, latestReset, viewTable>>
    /\ UNCHANGED <<migVars, tableVars, csvVars, enrichVars, pageVars, keyVars, schedVars>>

\* The tail PageChanged and handle_scroll share once current_page is set:
\* the slice, then the load of the next chunk when the page is at or beyond
\* what was loaded.
ShowPage(a) ==
    \E shown \in {update_displayed_vulnerabilities(a)} :
        IF shown.panicked
        THEN /\ app' = shown
             /\ UNCHANGED <<inflight, issued>>
        ELSE IF a.current_page >= a.last_loaded_page * (LOAD_PAGE_SIZE \div DISPLAY_PAGE_SIZE)
        THEN /\ issued < MaxCommands
             /\ app' = [shown EXCEPT !.loading = TRUE]
             /\ issued' = issued + 1
             /\ inflight' = inflight \cup
                    {LoadCommand(a, issued + 1, latestReset, a.last_loaded_page + 1)}
        ELSE /\ app' = shown
             /\ UNCHANGED <<inflight, issued>>

\* The pages the pagination controls send: Previous, Next, First and Last.
PageButtons ==
    {0, IF app.total_pages = 0 THEN 0 ELSE app.total_pages - 1}
    \cup (IF app.current_page > 0 THEN {app.current_page - 1} ELSE {})
    \cup (IF (app.current_page + 1) * DISPLAY_PAGE_SIZE < ListLen(app.vulnerabilities)
          THEN {app.current_page + 1} ELSE {})

PageInReach(page) ==
    page <= MaxPageDistance \/ page + MaxPageDistance + 1 >= app.total_pages

\* Message::PageChanged(page)
PageChanged(page) ==
    /\ Running
    /\ PageInReach(page)
    /\ IF page < app.total_pages
       THEN ShowPage([app EXCEPT !.current_page = page])
       ELSE UNCHANGED <<app, inflight, issued>>
    /\ UNCHANGED <<latestReset, viewTable>>
    /\ UNCHANGED <<migVars, tableVars, csvVars, enrichVars, pageVars, keyVars, schedVars>>

\* Message::ScrollChanged(offset), by whether offset > SCROLL_THRESHOLD.
ScrollChanged(overThreshold) ==
    /\ Running
    /\ PageInReach(app.current_page + 1)
    /\ IF overThreshold /\ app.current_page + 1 < app.total_pages
       THEN ShowPage([app EXCEPT !.current_page = app.current_page + 1])
       ELSE UNCHANGED <<app, inflight, issued>>
    /\ UNCHANGED <<latestReset, viewTable>>
    /\ UNCHANGED <<migVars, tableVars, csvVars, enrichVars, pageVars, keyVars, schedVars>>

\* Message::RefreshData and Message::SearchSubmitted on the fields a: the list
\* is cleared and page 0 of the current query is loaded.
ResetAndLoad(a) ==
    /\ Running
    /\ issued < MaxCommands
    /\ app' = [a EXCEPT !.loading = TRUE, !.current_page = 0, !.last_loaded_page = 0,
                        !.vulnerabilities = <<>>, !.displayed = <<0, 0>>]
    /\ issued' = issued + 1
    /\ latestReset' = issued + 1
    /\ inflight' = inflight \cup {LoadCommand(a, issued + 1, issued + 1, 0)}
    /\ UNCHANGED viewTable
    /\ UNCHANGED <<migVars, tableVars, csvVars, enrichVars, pageVars, keyVars, schedVars>>

RefreshData == ResetAndLoad(app)

SearchSubmitted == ResetAndLoad(app)

\* Message::SortFieldSelected(field)
SortFieldSelected(field) == ResetAndLoad([app EXCEPT !.sort_field = field])

\* Message::ToggleSortOrder
ToggleSortOrder == ResetAndLoad([app EXCEPT !.sort_ascending = ~app.sort_ascending])

\* Message::FilterSeverityChanged(severity)
FilterSeverityChanged(severity) == ResetAndLoad([app EXCEPT !.filter_severity = severity])

ViewNext ==
    \/ \E cmd \in inflight, ok \in BOOLEAN : VulnerabilitiesLoaded(cmd, ok)
    \/ \E query \in SearchQueries : SearchQueryChanged(query)
    \/ \E page \in PageButtons : PageChanged(page)
    \/ \E overThreshold \in BOOLEAN : ScrollChanged(overThreshold)
    \/ RefreshData
    \/ SearchSubmitted
    \/ \E field \in ViewSortFields : SortFieldSelected(field)
    \/ ToggleSortOrder
    \/ \E severity \in ViewFilters : FilterSeverityChanged(severity)

SpecView == ViewInit /\ [][ViewNext]_vars

\* Two chunks of the list hold a common record: they come from the same query
\* and their positions overlap.
SharesRecord(c, d) ==
    /\ c.search_query = d.search_query
    /\ c.sort_field = d.sort_field
    /\ c.sort_ascending = d.sort_ascending
    /\ c.filter_severity = d.filter_severity
    /\ c.from < d.from + d.len
    /\ d.from < c.from + c.len

\* C29: whatever the messages and the order in which the loads complete, the
\* list holds results of the latest reset request only (of its load and of the
\* page loads that followed it), and no record twice.
C29_ListIsLatestResetOnly ==
    app.open =>
        /\ \A i \in DOMAIN app.vulnerabilities :
               app.vulnerabilities[i].len > 0 =>
                   app.vulnerabilities[i].reset = latestReset
        /\ \A i, j \in DOMAIN app.vulnerabilities :
               i < j => ~SharesRecord(app.vulnerabilities[i], app.vulnerabilities[j])

\* C30: in every state of the view current_page * DISPLAY_PAGE_SIZE is at most
\* the number of loaded vulnerabilities, and update_displayed_vulnerabilities
\* has not sliced out of range.
C30_CurrentPageWithinLoaded ==
    app.open =>
        /\ app.current_page * DISPLAY_PAGE_SIZE <= ListLen(app.vulnerabilities)
        /\ ~app.panicked

(***************************************************************************)
(* Process life cycle and periodic update scheduler (main.rs).  The        *)
(* scheduler task loops over a select of sleep(UPDATE_INTERVAL) and the    *)
(* shutdown channel; App::run waits for the GUI or the shutdown signal,    *)
(* then cleans up and returns, which drops the runtime and its tasks.      *)
(***************************************************************************)

\* Most batches the scheduler starts, and most records of one batch.
MaxTicks == 2
MaxBatchRecords == 2

\* The runtime is dropped when main returns: a task that has not finished is
\* cancelled where it waits.
RuntimeDropped(pc) == IF pc = "exited" THEN "exited" ELSE "dropped"

\* The ctrl_c task: signal::ctrl_c() resolved, shutdown_signal.send(()).
CtrlCReceived ==
    /\ mainPc \in {"gui", "cleanup"}
    /\ ctrlC = "listening"
    /\ ctrlC' = "sent"
    /\ shutdownSent' = shutdownSent + 1
    /\ UNCHANGED <<mainPc, schedPc, tickReady, batchLeft, batchesRun>>
    /\ UNCHANGED <<migVars, tableVars, csvVars, enrichVars, pageVars, keyVars, viewVars>>

\* The select of App::run takes the branch of app::run: Ok goes on to cleanup
\* (which sends the shutdown signal), Err returns from run at once.
RunGuiReturns(ok) ==
    /\ mainPc = "gui"
    /\ IF ok
       THEN /\ mainPc' = "cleanup"
            /\ shutdownSent' = shutdownSent + 1
            /\ UNCHANGED schedPc
       ELSE /\ mainPc' = "returned"
            /\ schedPc' = RuntimeDropped(schedPc)
            /\ UNCHANGED shutdownSent
    /\ UNCHANGED <<ctrlC, tickReady, batchLeft, batchesRun>>
    /\ UNCHANGED <<migVars, tableVars, csvVars, enrichVars, pageVars, keyVars, viewVars>>

\* The select of App::run takes the branch of shutdown_rx.recv(), then cleanup
\* sends the shutdown signal.
RunRecvShutdown ==
    /\ mainPc = "gui"
    /\ shutdownSent > 0
    /\ mainPc' = "cleanup"
    /\ shutdownSent' = shutdownSent + 1
    /\ UNCHANGED <<ctrlC, schedPc, tickReady, batchLeft, batchesRun>>
    /\ UNCHANGED <<migVars, tableVars, csvVars, enrichVars, pageVars, keyVars, viewVars>>

\* cleanup has slept its second; run and main return.
MainReturns ==
    /\ mainPc = "cleanup"
    /\ mainPc' = "returned"
    /\ schedPc' = RuntimeDropped(schedPc)
    /\ UNCHANGED <<ctrlC, shutdownSent, tickReady, batchLeft, batchesRun>>
    /\ UNCHANGED <<migVars, tableVars, csvVars, enrichVars, pageVars, keyVars, viewVars>>

\* The first poll of a select of the scheduler: the sleep was just created, so
\* only shutdown_rx.recv() can be ready.
FirstPoll ==
    /\ schedPc = "polling"
    /\ schedPc' = IF shutdownSent > 0 THEN "exited" ELSE "parked"
    /\ UNCHANGED <<mainPc, ctrlC, shutdownSent, tickReady, batchLeft, batchesRun>>
    /\ UNCHANGED <<migVars, tableVars, csvVars, enrichVars, pageVars, keyVars, viewVars>>

\* UPDATE_INTERVAL elapses while the scheduler is parked in its select.
SleepElapsed ==
    /\ schedPc = "parked"
    /\ ~tickReady
    /\ batchesRun < MaxTicks
    /\ tickReady' = TRUE
    /\ UNCHANGED <<mainPc, ctrlC, shutdownSent, schedPc, batchLeft, batchesRun>>
    /\ UNCHANGED <<migVars, tableVars, csvVars, enrichVars, pageVars, keyVars, viewVars>>

\* The select takes the branch of the sleep (any ready branch can be taken):
\* batch_update_vulnerabilities(BATCH_SIZE) starts, with n records selected.
SelectSleep(n) ==
    /\ schedPc = "parked"
    /\ tickReady
    /\ schedPc' = "running"
    /\ tickReady' = FALSE
    /\ batchLeft' = n
    /\ batchesRun' = batchesRun + 1
    /\ UNCHANGED <<mainPc, ctrlC, shutdownSent>>
    /\ UNCHANGED <<migVars, tableVars, csvVars, enrichVars, pageVars, keyVars, viewVars>>

\* The select takes the branch of shutdown_rx.recv(): break.
SelectShutdown ==
    /\ schedPc = "parked"
    /\ shutdownSent > 0
    /\ schedPc' = "exited"
    /\ tickReady' = FALSE
    /\ UNCHANGED <<mainPc, ctrlC, shutdownSent, batchLeft, batchesRun>>
    /\ UNCHANGED <<migVars, tableVars, csvVars, enrichVars, pageVars, keyVars, viewVars>>

\* The running batch processes one record.
BatchRecord ==
    /\ schedPc = "running"
    /\ batchLeft > 0
    /\ batchLeft' = batchLeft - 1
    /\ UNCHANGED <<mainPc, ctrlC, shutdownSent, schedPc, tickReady, batchesRun>>
    /\ UNCHANGED <<migVars, tableVars, csvVars, enrichVars, pageVars, keyVars, viewVars>>

\* The batch returns; the loop enters its next select.
BatchDone ==
    /\ schedPc = "running"
    /\ batchLeft = 0
    /\ schedPc' = "polling"
    /\ UNCHANGED <<mainPc, ctrlC, shutdownSent, tickReady, batchLeft, batchesRun>>
    /\ UNCHANGED <<migVars, tableVars, csvVars, enrichVars, pageVars, keyVars, viewVars>>

\* App::run after start_update_scheduler and the spawn of the ctrl_c task.
SchedInit ==
    /\ MigIdle
    /\ TableEmpty
    /\ CsvIdle
    /\ EnrichIdle
    /\ PageIdle
    /\ KeyIdle
    /\ ViewIdle
    /\ mainPc = "gui"
    /\ ctrlC = "listening"
    /\ shutdownSent = 0
    /\ schedPc = "polling"
    /\ tickReady = FALSE
    /\ batchLeft = 0
    /\ batchesRun = 0

SchedNext ==
    \/ CtrlCReceived
    \/ \E ok \in BOOLEAN : RunGuiReturns(ok)
    \/ RunRecvShutdown
    \/ MainReturns
    \/ FirstPoll
    \/ SleepElapsed
    \/ \E n \in 0..MaxBatchRecords : SelectSleep(n)
    \/ SelectShutdown
    \/ BatchRecord
    \/ BatchDone

\* A woken task is polled, and a fetch and a database call return.
SchedFairness ==
    /\ WF_vars(FirstPoll)
    /\ WF_vars(SelectShutdown \/ \E n \in 0..MaxBatchRecords : SelectSleep(n))
    /\ WF_vars(BatchRecord)
    /\ WF_vars(BatchDone)

SpecSched == SchedInit /\ [][SchedNext]_vars /\ SchedFairness

\* C20: once the shutdown signal has been sent the scheduler starts no batch
\* and eventually leaves its loop; it leaves the loop only from its select, and
\* a running batch is left only when it has processed all its records or when
\* the runtime is dropped.
C20_NoBatchAfterShutdown ==
    /\ [][(shutdownSent > 0 /\ schedPc' = "running") => schedPc = "running"]_vars
    /\ [](shutdownSent > 0 => <>(schedPc \in {"exited", "dropped"}))
    /\ [][(schedPc' = "exited" /\ schedPc # "exited") => schedPc \in {"polling", "parked"}]_vars
    /\ [][(schedPc = "running" /\ schedPc' \notin {"running", "dropped"}) => batchLeft = 0]_vars

====
